---- MODULE Spec2Model ----
(***************************************************************************)
(* Tripfit (src/app.py): a trip form, a geocoding and a forecast lookup,   *)
(* and an outfit generator that either asks a text model for JSON or       *)
(* builds a result from the per-style template tables.                     *)
(*                                                                         *)
(* Conventions of this model.                                              *)
(*  - Korean text of the source is written in Revised Romanization, one    *)
(*    syllable block per syllable; other non-ASCII characters are dropped  *)
(*    (emoji) or replaced by their ASCII look-alike.  The placeholder      *)
(*    U+2014 (EM DASH) of build_calendar_rows is the character "-".        *)
(*  - A date is a day number, day 1 being the 1st of January of a year of  *)
(*    365 days; date.isoformat() is ToString of that number.               *)
(*  - A Python string is a sequence of non-empty pieces (characters for    *)
(*    the texts a user types), so "" is << >> and + is \o.                 *)
(*  - A Python value that a result may hold is a tagged tuple:             *)
(*      <<"none">>  <<"bool", b>>  <<"num", n>>  <<"str", pieces>>         *)
(*      <<"list", elements>>  <<"dict", <<key, value>> pairs in order>>    *)
(*  - An optional value is a sequence of length at most one.               *)
(*  - Python indexes from 0, TLA+ from 1: day_vars[0] is day_vars[1] here. *)
(***************************************************************************)
EXTENDS Integers, Sequences, FiniteSets, TLC

(***************************************************************************)
(* Python values                                                           *)
(***************************************************************************)
PyNone == <<"none">>
PyBool(b) == <<"bool", b>>
PyNum(n) == <<"num", n>>
PyStr(s) == <<"str", s>>
PyList(s) == <<"list", s>>
PyDict(s) == <<"dict", s>>

Tag(v) == v[1]
Val(v) == v[2]

IsDict(v) == Tag(v) = "dict"
IsList(v) == Tag(v) = "list"
IsStr(v) == Tag(v) = "str"

\* bool(v): None, False, 0, "", [] and {} are falsy.
Truthy(v) ==
  CASE Tag(v) = "none" -> FALSE
    [] Tag(v) = "bool" -> Val(v)
    [] Tag(v) = "num" -> Val(v) # 0
    [] OTHER -> Val(v) # <<>>

\* A list of plain strings as a Python list of str.
StrList(s) == PyList([i \in 1..Len(s) |-> PyStr(<<s[i]>>)])

HasKey(d, k) == \E i \in 1..Len(Val(d)) : Val(d)[i][1] = k

\* dict.get(k, default) on a value known to be a dict.
DictGet(d, k, default) ==
  IF HasKey(d, k)
    THEN Val(d)[CHOOSE i \in 1..Len(Val(d)) : Val(d)[i][1] = k][2]
    ELSE default

\* d[k] = v: replaces the value in place, or appends a new key.
DictSet(d, k, v) ==
  IF HasKey(d, k)
    THEN PyDict([i \in 1..Len(Val(d)) |->
                   IF Val(d)[i][1] = k THEN <<k, v>> ELSE Val(d)[i]])
    ELSE PyDict(Append(Val(d), <<k, v>>))

\* dict.setdefault(k, v)
DictSetDefault(d, k, v) == IF HasKey(d, k) THEN d ELSE DictSet(d, k, v)

(***************************************************************************)
(* Strings                                                                 *)
(***************************************************************************)
Whitespace == {" "}

RECURSIVE LStripChars(_, _)
LStripChars(s, cs) ==
  IF s # <<>> /\ Head(s) \in cs THEN LStripChars(Tail(s), cs) ELSE s

RECURSIVE RStripChars(_, _)
RStripChars(s, cs) ==
  IF s # <<>> /\ s[Len(s)] \in cs
    THEN RStripChars(SubSeq(s, 1, Len(s) - 1), cs)
    ELSE s

\* str.strip(chars)
StripChars(s, cs) == RStripChars(LStripChars(s, cs), cs)

\* str.strip()
Strip(s) == StripChars(s, Whitespace)

\* sep.join(parts)
RECURSIVE Join(_, _)
Join(sep, parts) ==
  IF parts = <<>> THEN <<>>
  ELSE IF Len(parts) = 1 THEN parts[1]
  ELSE parts[1] \o sep \o Join(sep, Tail(parts))

(***************************************************************************)
(* Style options and the per-style templates                               *)
(***************************************************************************)
STYLE_OPTIONS ==
  <<"minimeol", "bintiji", "seuteurit", "kaejueol",
    "keulraesik", "reobeulri", "gopeukoeo", "sitiboi/sitigeol">>

\* Two "day" and two "night" templates per style.
STYLE_VARIATIONS ==
  "minimeol" :> [
    day |-> <<
      [title |-> "minimeol mono deiruk",
       items |-> [top |-> <<"hwaiteu/beulraek syeocheu", "minimeol niteu(reieodeu)">>,
                 bottom |-> <<"teilreodeu seulraekseu", "seuteureiteu denim(seontaek)">>,
                 outer |-> <<"singgeul jaket", "raiteu teurenchi(seontaek)">>,
                 shoes |-> <<"hwaiteu seunikeojeu", "ropeo(seontaek)">>,
                 accessories |-> <<"gajuk keuroseubaek", "simpeul sigye">>],
       key_items |-> <<"hwaiteu syeocheu", "seulraekseu", "gajuk keuroseubaek">>,
       why |-> "bulpilyohan diteil eopsi silruetgwa toneuro jeongrihae sajini kkalkkeumhage nawayo. idong.gwangwangedo budam eopsneun johapipnida.",
       checklist |-> <<"syeocheu yeobeol", "yalbeun niteu", "belteu", "bojobaeteori", "seonkeurim", "mini pauchi">>,
       covers |-> <<"ojeon", "ohu">>],
      [title |-> "minimeol reieodeu deiruk",
       items |-> [top |-> <<"yuni ton tisyeocheu", "gadigeon/jipeop(reieo)">>,
                 bottom |-> <<"waideu seulraekseu", "midi seukeoteu(seontaek)">>,
                 outer |-> <<"barammaki/raiteu koteu">>,
                 shoes |-> <<"seulripon", "seunikeojeu">>,
                 accessories |-> <<"mini toteu", "seongeulraseu">>],
       key_items |-> <<"reieodeu gadigeon", "waideu seulraekseu", "seongeulraseu">>,
       why |-> "gion byeonhwae reieodeuro daeeunghago, tonontoneuro anjeonggam itge yeonchulhaeyo.",
       checklist |-> <<"gadigeon", "yalbeun meopeulreo(seontaek)", "yangmal", "ripbam", "multisyu">>,
       covers |-> <<"ojeon", "ohu">>]
    >>,
    night |-> <<
      [title |-> "minimeol dineoruk",
       items |-> [top |-> <<"beulraek teoteulnek/niteu", "syeocheu(seontaek)">>,
                 bottom |-> <<"ul seulraekseu", "rong seukeoteu(seontaek)">>,
                 outer |-> <<"koteu/beulreijeo">>,
                 shoes |-> <<"ropeo", "minimeol aengkeulbucheu(seontaek)">>,
                 accessories |-> <<"minibaek", "silbeo aekseseori">>],
       key_items |-> <<"beulraek niteu", "ropeo", "minibaek">>,
       why |-> "jeonyeok jomyeongeseo toni jeongridoemyeon hwolssin seryeondwae boyeoyo. gwahan pointeu eopsi sojaero bunwigiman salripnida.",
       checklist |-> <<"hyang/miseuteu", "jakeun aekseseori", "haendeukeurim">>,
       covers |-> <<"jeonyeok">>],
      [title |-> "minimeol pomeol mudeuruk",
       items |-> [top |-> <<"silki beulrauseu/syeocheu">>,
                 bottom |-> <<"seulraekseu", "peulreeo seukeoteu(seontaek)">>,
                 outer |-> <<"beulreijeo">>,
                 shoes |-> <<"ropeo", "seuteuraep syujeu(seontaek)">>,
                 accessories |-> <<"keulreochi/minibaek", "jinju/silbeo">>],
       key_items |-> <<"beulreijeo", "silki syeocheu", "keulreochi">>,
       why |-> "siksa.ba/gongyeon gateun iljeonge 'jeongdondoen neukkim'eul jugi johgo sajineseodo gyunhyeongi japhyeoyo.",
       checklist |-> <<"beulreijeo", "yeobun seutaking/yangmal", "heeopin">>,
       covers |-> <<"jeonyeok">>]
    >>
  ]
  @@
  "bintiji" :> [
    day |-> <<
      [title |-> "bintiji reteuro tueoruk",
       items |-> [top |-> <<"chekeu syeocheu", "niteu beseuteu(reieo)">>,
                 bottom |-> <<"haiweseuteu denim", "kodyuroi paencheu(seontaek)">>,
                 outer |-> <<"teuwideu jaket", "gajuk jaket(seontaek)">>,
                 shoes |-> <<"merijein/ropeo", "kaenbeoseuhwa(seontaek)">>,
                 accessories |-> <<"syoldeobaek", "seukapeu">>],
       key_items |-> <<"chekeu syeocheu", "niteu beseuteu", "seukapeu">>,
       why |-> "bintijiui 'reieodeu'ga yeohaeng sajineul pungseonghage mandeuleojwoyo. saekgameul tondaunhamyeon chonseureopji anhayo.",
       checklist |-> <<"seukapeu", "yalbeun ineo", "yangmal", "seongeulraseu">>,
       covers |-> <<"ojeon", "ohu">>],
      [title |-> "bintiji denim mudeuruk",
       items |-> [top |-> <<"geuraepik ti/peurinteu ti", "gadigeon">>,
                 bottom |-> <<"bintiji wosing denim">>,
                 outer |-> <<"cheongjaket/heonting jaket">>,
                 shoes |-> <<"seunikeojeu", "ropeo(seontaek)">>,
                 accessories |-> <<"toteubaek", "bolkaep">>],
       key_items |-> <<"wosing denim", "heonting jaket", "toteubaek">>,
       why |-> "pyeonhandedo 'mudeu'ga salaseo kape.geori seunaepe ganghaeyo.",
       checklist |-> <<"bolkaep", "ekobaek", "seonkeurim", "bojobaeteori">>,
       covers |-> <<"ojeon", "ohu">>]
    >>,
    night |-> <<
      [title |-> "bintiji sinema ruk",
       items |-> [top |-> <<"beulrauseu/syeocheu(reopeul/kara)">>,
                 bottom |-> <<"midi seukeoteu", "seulraekseu(seontaek)">>,
                 outer |-> <<"teurenchi/koteu">>,
                 shoes |-> <<"ropeo", "merijein">>,
                 accessories |-> <<"minibaek", "heeobaendeu">>],
       key_items |-> <<"kara beulrauseu", "midi seukeoteu", "heeobaendeu">>,
       why |-> "jeonyeokeneun diteili sajine jal damgyeoyo. 'kara/seukeoteu' johapi bintiji gamseongeul hwaksilhi jupnida.",
       checklist |-> <<"heeobaendeu", "ripbam", "hyang/miseuteu">>,
       covers |-> <<"jeonyeok">>],
      [title |-> "bintiji keulraesik naitruk",
       items |-> [top |-> <<"niteu/gadigeon(danjeong)">>,
                 bottom |-> <<"peulricheu seukeoteu", "seulraekseu(seontaek)">>,
                 outer |-> <<"ul koteu">>,
                 shoes |-> <<"ropeo">>,
                 accessories |-> <<"keulraesik syoldeobaek", "simpeul gwigeoli">>],
       key_items |-> <<"peulricheu seukeoteu", "ul koteu", "syoldeobaek">>,
       why |-> "chabunhan toneuro magamhamyeon 'yet yeonghwa neukkim'i naseo yagyeong/reseutorange jal eoulryeoyo.",
       checklist |-> <<"koteu", "haendeukeurim", "jakeun aekseseori">>,
       covers |-> <<"jeonyeok">>]
    >>
  ]
  @@
  "seuteurit" :> [
    day |-> <<
      [title |-> "seuteurit obeopit deiruk",
       items |-> [top |-> <<"obeopit ti/hudeu", "geuraepik pointeu">>,
                 bottom |-> <<"kago paencheu", "waideu denim(seontaek)">>,
                 outer |-> <<"basiti/hanggongjeompeo">>,
                 shoes |-> <<"cheongki seunikeojeu">>,
                 accessories |-> <<"bolkaep", "keuroseubaek">>],
       key_items |-> <<"hudeu", "kago paencheu", "cheongki seunikeojeu">>,
       why |-> "dobo/syoping manheun nale pyeonhago, sajine silrueti keuge japhyeo seuteurit mudeuga hwak salanayo.",
       checklist |-> <<"bolkaep", "bojobaeteori", "ieopon", "multisyu">>,
       covers |-> <<"ojeon", "ohu">>],
      [title |-> "seuteurit reieo mikseuruk",
       items |-> [top |-> <<"rongseulribeu", "banpal reieo(seontaek)">>,
                 bottom |-> <<"jogeo/waideu paencheu">>,
                 outer |-> <<"barammaki", "chekeu syeocheu(auteo daeyong)">>,
                 shoes |-> <<"seunikeojeu">>,
                 accessories |-> <<"baekpaek", "seongeulraseu">>],
       key_items |-> <<"barammaki", "jogeo paencheu", "baekpaek">>,
       why |-> "yeohaengeseo gioni aemaehal ttae reieoga choegoyeyo. seuteuriteun 'reieo+silyong'i jeongdap.",
       checklist |-> <<"barammaki", "seongeulraseu", "yangmal", "mul">>,
       covers |-> <<"ojeon", "ohu">>]
    >>,
    night |-> <<
      [title |-> "seuteurit nait autruk",
       items |-> [top |-> <<"beulraek ti/niteu", "redeo pointeu(seontaek)">>,
                 bottom |-> <<"beulraek denim", "kago(seontaek)">>,
                 outer |-> <<"redeo jaket", "beulrujong(seontaek)">>,
                 shoes |-> <<"haitap/cheongki seunikeojeu">>,
                 accessories |-> <<"chein aekseseori", "mini keuroseubaek">>],
       key_items |-> <<"redeo jaket", "beulraek denim", "chein aekseseori">>,
       why |-> "yagyeongeseoneun daebiga salaseo beulraek beiseuga sajinbal jal batayo. pointeuneun hanaman!",
       checklist |-> <<"hyang/miseuteu", "ripbam", "jakeun aekseseori">>,
       covers |-> <<"jeonyeok">>],
      [title |-> "seuteurit pointeu keolreoruk",
       items |-> [top |-> <<"beulraek beiseu", "keolreo pointeu sangui/bini">>,
                 bottom |-> <<"waideu paencheu">>,
                 outer |-> <<"jeompeo">>,
                 shoes |-> <<"seunikeojeu">>,
                 accessories |-> <<"bini/kaep", "keuroseubaek">>],
       key_items |-> <<"pointeu keolreo", "waideu paencheu", "bini">>,
       why |-> "jeonyeok sajineun pointeu keolreoga deo seonmyeonghaeyo. sangui/moja han gundeman keolreoro 'jjikeo'jupnida.",
       checklist |-> <<"bini", "haendeupon seuteuraep", "bojobaeteori">>,
       covers |-> <<"jeonyeok">>]
    >>
  ]
  @@
  "kaejueol" :> [
    day |-> <<
      [title |-> "kaejueol dei tueoruk",
       items |-> [top |-> <<"maentumaen/tisyeocheu", "syeocheu(reieo)">>,
                 bottom |-> <<"denim/myeonpaencheu">>,
                 outer |-> <<"gadigeon/gabyeoun jaket">>,
                 shoes |-> <<"seunikeojeu">>,
                 accessories |-> <<"ekobaek", "bolkaep">>],
       key_items |-> <<"maentumaen", "seunikeojeu", "ekobaek">>,
       why |-> "eodideun munanhago pyeonhaeseo iljeongi manheun nale anjeonhan seontaekieyo.",
       checklist |-> <<"yangmal", "bojobaeteori", "seonkeurim", "multisyu">>,
       covers |-> <<"ojeon", "ohu">>],
      [title |-> "kaejueol reieodeu ruk",
       items |-> [top |-> <<"tisyeocheu", "niteu beseuteu/gadigeon">>,
                 bottom |-> <<"waideu denim">>,
                 outer |-> <<"barammaki(seontaek)">>,
                 shoes |-> <<"reoning seunikeojeu">>,
                 accessories |-> <<"baekpaek">>],
       key_items |-> <<"gadigeon", "waideu denim", "baekpaek">>,
       why |-> "gion byeonhwa daeeungi swipgo, hwaldongseongi johaseo 'yeohaeng jeonyong'euro jal matayo.",
       checklist |-> <<"gadigeon", "ieopon", "sangbiyak">>,
       covers |-> <<"ojeon", "ohu">>]
    >>,
    night |-> <<
      [title |-> "kaejueol dineoruk",
       items |-> [top |-> <<"niteu/syeocheu(danjeong)">>,
                 bottom |-> <<"seulraekseu/midi seukeoteu">>,
                 outer |-> <<"beulreijeo(seontaek)">>,
                 shoes |-> <<"ropeo/danjeong seunikeojeu">>,
                 accessories |-> <<"minibaek">>],
       key_items |-> <<"danjeong niteu", "seulraekseu", "minibaek">>,
       why |-> "neomu kkumin neukkim eopsido jeonyeok jangsoeseo kkalkkeumhage boineun johapipnida.",
       checklist |-> <<"hyang/miseuteu", "ripbam">>,
       covers |-> <<"jeonyeok">>],
      [title |-> "kaejueol wonmail mudeuruk",
       items |-> [top |-> <<"jipeop/gadigeon">>,
                 bottom |-> <<"jogeo paencheu(kkalkkeum pit)">>,
                 outer |-> <<"koteu(seontaek)">>,
                 shoes |-> <<"seulripon">>,
                 accessories |-> <<"toteubaek">>],
       key_items |-> <<"jipeop", "seulripon", "toteubaek">>,
       why |-> "sukso geuncheo/yasik/gabyeoun sanchaeke pyeonhago sajindo 'kkuankku'ro jal nawayo.",
       checklist |-> <<"haendeukeurim", "yalbeun auteo">>,
       covers |-> <<"jeonyeok">>]
    >>
  ]
  @@
  "keulraesik" :> [
    day |-> <<
      [title |-> "keulraesik siti wokeuruk",
       items |-> [top |-> <<"syeocheu/niteu(danjeong)">>,
                 bottom |-> <<"seulraekseu", "midi seukeoteu(seontaek)">>,
                 outer |-> <<"teurenchi/beulreijeo">>,
                 shoes |-> <<"ropeo">>,
                 accessories |-> <<"gajuk toteu", "simpeul sigye">>],
       key_items |-> <<"teurenchi", "ropeo", "gajuk toteu">>,
       why |-> "dosi yeohaenge chaltteokin jeongdondoen rukieyo. sajini 'gyeoksik itge' jeongridoepnida.",
       checklist |-> <<"belteu", "yangmal", "heeo beureosi">>,
       covers |-> <<"ojeon", "ohu">>],
      [title |-> "keulraesik myujieom ruk",
       items |-> [top |-> <<"niteu", "syeocheu(reieo)">>,
                 bottom |-> <<"seulraekseu">>,
                 outer |-> <<"koteu(seontaek)/beulreijeo">>,
                 shoes |-> <<"ropeo">>,
                 accessories |-> <<"seukapeu(seontaek)", "minibaek">>],
       key_items |-> <<"niteu", "seulraekseu", "seukapeu">>,
       why |-> "silnae(bakmulgwan/jeonsi)eseo jomyeongi anjeongjeokira keulraesik ruki deo dotboyeoyo.",
       checklist |-> <<"seukapeu", "mini pauchi", "ripbam">>,
       covers |-> <<"ojeon", "ohu">>]
    >>,
    night |-> <<
      [title |-> "keulraesik dineo ruk",
       items |-> [top |-> <<"silki beulrauseu/syeocheu">>,
                 bottom |-> <<"seulraekseu/rong seukeoteu">>,
                 outer |-> <<"koteu">>,
                 shoes |-> <<"seuteuraep syujeu/ropeo">>,
                 accessories |-> <<"keulreochi/minibaek">>],
       key_items |-> <<"beulrauseu", "keulreochi", "koteu">>,
       why |-> "jeonyeoken sojaega biteul bata gogeupseureopge boyeoyo. sajindo bunwigi itge naopnida.",
       checklist |-> <<"hyang/miseuteu", "jakeun aekseseori">>,
       covers |-> <<"jeonyeok">>],
      [title |-> "keulraesik beulraek taipeu ruk",
       items |-> [top |-> <<"beulraek tap/niteu">>,
                 bottom |-> <<"seulraekseu/rong seukeoteu">>,
                 outer |-> <<"beulreijeo">>,
                 shoes |-> <<"ropeo/hil(seontaek)">>,
                 accessories |-> <<"silbeo pointeu">>],
       key_items |-> <<"beulreijeo", "beulraek tap", "silbeo pointeu">>,
       why |-> "toneul jehanhamyeon nuguna silpae eopsi 'danjeong+seryeon'euro gapnida.",
       checklist |-> <<"beulreijeo", "haendeukeurim">>,
       covers |-> <<"jeonyeok">>]
    >>
  ]
  @@
  "reobeulri" :> [
    day |-> <<
      [title |-> "reobeulri deiteu mudeuruk",
       items |-> [top |-> <<"paseutel niteu/beulrauseu">>,
                 bottom |-> <<"midi seukeoteu", "yeoncheong denim(seontaek)">>,
                 outer |-> <<"gadigeon">>,
                 shoes |-> <<"merijein/seunikeojeu(seontaek)">>,
                 accessories |-> <<"minibaek", "heeopin">>],
       key_items |-> <<"paseutel niteu", "minibaek", "heeopin">>,
       why |-> "saekgamgwa diteili sajine jal damgyeoyo. reobeulrineun 'ton+jakeun pointeu'ga haeksim!",
       checklist |-> <<"heeopin", "ripbam", "songeoul(seontaek)">>,
       covers |-> <<"ojeon", "ohu">>],
      [title |-> "reobeulri kaejueol seunaepruk",
       items |-> [top |-> <<"keurop gadigeon/ti">>,
                 bottom |-> <<"peulricheu seukeoteu", "syotpaencheu(sijeun)">>,
                 outer |-> <<"raiteu jaket(seontaek)">>,
                 shoes |-> <<"seunikeojeu">>,
                 accessories |-> <<"ekobaek", "ribon">>],
       key_items |-> <<"gadigeon", "peulricheu seukeoteu", "ribon pointeu">>,
       why |-> "umjikimi itneun seukeoteuga yeohaeng sajine jal eoulryeoyo. kaejueolhage gwiyeoumman salripnida.",
       checklist |-> <<"ekobaek", "seonkeurim", "bojobaeteori">>,
       covers |-> <<"ojeon", "ohu">>]
    >>,
    night |-> <<
      [title |-> "reobeulri nait ruk",
       items |-> [top |-> <<"beulrauseu(diteil)">>,
                 bottom |-> <<"rong seukeoteu">>,
                 outer |-> <<"koteu/gadigeon">>,
                 shoes |-> <<"merijein/ropeo">>,
                 accessories |-> <<"minibaek", "jakeun gwigeoli">>],
       key_items |-> <<"beulrauseu", "rong seukeoteu", "gwigeoli">>,
       why |-> "jeonyeok jomyeongeseo diteili deo yeppeuge boyeoyo. silrueteun gilge, pointeuneun jakge!",
       checklist |-> <<"hyang/miseuteu", "gwigeoli", "haendeukeurim">>,
       covers |-> <<"jeonyeok">>],
      [title |-> "reobeulri geulrou ruk",
       items |-> [top |-> <<"aibori niteu">>,
                 bottom |-> <<"seulraekseu/seukeoteu">>,
                 outer |-> <<"teurenchi(seontaek)">>,
                 shoes |-> <<"ropeo">>,
                 accessories |-> <<"peol pointeu">>],
       key_items |-> <<"aibori niteu", "peol pointeu", "ropeo">>,
       why |-> "aibori toneun yagyeongeseo eolguli hwanhae boigo sajini budeureopge nawayo.",
       checklist |-> <<"ripbam", "jakeun pauchi">>,
       covers |-> <<"jeonyeok">>]
    >>
  ]
  @@
  "gopeukoeo" :> [
    day |-> <<
      [title |-> "gopeukoeo haibeurideu ruk",
       items |-> [top |-> <<"gineungseong ti/ginpal", "peulriseu(seontaek)">>,
                 bottom |-> <<"nailron paencheu", "kago paencheu(seontaek)">>,
                 outer |-> <<"barammaki/swel jaket">>,
                 shoes |-> <<"teureil seunikeojeu">>,
                 accessories |-> <<"baekpaek", "kaep">>],
       key_items |-> <<"swel jaket", "teureil seunikeojeu", "baekpaek">>,
       why |-> "nalssi byeondong.idongi manheun yeohaenge choegoyeyo. gineungseong sojaera silyongseongdo ganghapnida.",
       checklist |-> <<"usan/ubi(seontaek)", "bojobaeteori", "mulbyeong", "sangbiyak">>,
       covers |-> <<"ojeon", "ohu">>],
      [title |-> "gopeukoeo siti autdoeoruk",
       items |-> [top |-> <<"maentumaen/ginpal">>,
                 bottom |-> <<"jogeo/nailron paencheu">>,
                 outer |-> <<"paeding beseuteu(sijeun)/barammaki">>,
                 shoes |-> <<"reoning/teureil syujeu">>,
                 accessories |-> <<"weiseuteubaek", "seongeulraseu">>],
       key_items |-> <<"barammaki", "weiseuteubaek", "reoning syujeu">>,
       why |-> "dosieseodo autdoeo gamseongeun salridoe gwahaji anhge 'sitihyeong'euro matchun beojeonieyo.",
       checklist |-> <<"seongeulraseu", "multisyu", "hyudaeyong sonsejeongje">>,
       covers |-> <<"ojeon", "ohu">>]
    >>,
    night |-> <<
      [title |-> "gopeukoeo nait raiteuruk",
       items |-> [top |-> <<"gineungseong niteu/hudi">>,
                 bottom |-> <<"kago/jogeo">>,
                 outer |-> <<"gabyeoun daun/swel(seontaek)">>,
                 shoes |-> <<"seunikeojeu">>,
                 accessories |-> <<"keuroseubaek">>],
       key_items |-> <<"hudi", "keuroseubaek", "kago">>,
       why |-> "jeonyeoken cheon yujiga jungyohaeseo boon/bangpungeul chaenggyeoteoyo. pyeonhage yagyeong boreo gagi johayo.",
       checklist |-> <<"yalbeun auteo", "hatpaek(sijeun)">>,
       covers |-> <<"jeonyeok">>],
      [title |-> "gopeukoeo tononton ruk",
       items |-> [top |-> <<"dakeu ton sangui">>,
                 bottom |-> <<"dakeu ton paencheu">>,
                 outer |-> <<"swel jaket">>,
                 shoes |-> <<"seunikeojeu">>,
                 accessories |-> <<"kaep/bini(seontaek)">>],
       key_items |-> <<"swel jaket", "dakeu ton", "bini">>,
       why |-> "tonontoneuro jeongrihamyeon gineungseong aitemdo 'paesyeon'euro boigi swiwoyo.",
       checklist |-> <<"bini", "ieopon">>,
       covers |-> <<"jeonyeok">>]
    >>
  ]
  @@
  "sitiboi/sitigeol" :> [
    day |-> <<
      [title |-> "sitiboi/geol deiruk",
       items |-> [top |-> <<"syeocheu", "niteu(reieo)">>,
                 bottom |-> <<"waideu seulraekseu/denim">>,
                 outer |-> <<"koteu/jaket(seontaek)">>,
                 shoes |-> <<"ropeo/seunikeojeu">>,
                 accessories |-> <<"toteubaek", "angyeong(seontaek)">>],
       key_items |-> <<"syeocheu", "toteubaek", "waideu seulraekseu">>,
       why |-> "dosi baegyeongeseo 'jeongdondoen kaejueol'i jeil yeppeoyo. silrueteun yeoyu itge, keolreoneun chabunhage!",
       checklist |-> <<"syeocheu yeobeol", "ripbam", "bojobaeteori">>,
       covers |-> <<"ojeon", "ohu">>],
      [title |-> "siti kape seunaepruk",
       items |-> [top |-> <<"hudi/maentumaen(kkalkkeum)", "syeocheu reieo(seontaek)">>,
                 bottom |-> <<"seulraekseu", "denim(seontaek)">>,
                 outer |-> <<"beulreijeo(seontaek)">>,
                 shoes |-> <<"seunikeojeu">>,
                 accessories |-> <<"keuroseubaek", "seongeulraseu">>],
       key_items |-> <<"kkalkkeum hudi", "seulraekseu", "seongeulraseu">>,
       why |-> "kape.seojeom gateun silnaeeseo 'kkuankku' sajini jal naoneun johapieyo.",
       checklist |-> <<"seongeulraseu", "ekobaek">>,
       covers |-> <<"ojeon", "ohu">>]
    >>,
    night |-> <<
      [title |-> "siti nait mudeuruk",
       items |-> [top |-> <<"niteu/syeocheu(danjeong)">>,
                 bottom |-> <<"seulraekseu/rong seukeoteu">>,
                 outer |-> <<"koteu">>,
                 shoes |-> <<"ropeo">>,
                 accessories |-> <<"minibaek", "simpeul aekseseori">>],
       key_items |-> <<"koteu", "ropeo", "minibaek">>,
       why |-> "yagyeong/ba/dineoe jal eoulrineun dosijeokin mudeuyeyo. sojaereul danjeonghage matchumyeon sajini gogeupseureopge naopnida.",
       checklist |-> <<"hyang/miseuteu", "haendeukeurim">>,
       covers |-> <<"jeonyeok">>],
      [title |-> "siti mono pointeuruk",
       items |-> [top |-> <<"mono ton sangui">>,
                 bottom |-> <<"mono ton haui">>,
                 outer |-> <<"jaket">>,
                 shoes |-> <<"ropeo/danjeong seunikeojeu">>,
                 accessories |-> <<"metal pointeu">>],
       key_items |-> <<"mono ton", "jaket", "metal pointeu">>,
       why |-> "dosi jomyeongeseoneun daebiga jungyohaeseo mono ton+jakeun pointeuga silpae hwakryuli natayo.",
       checklist |-> <<"jakeun aekseseori", "ripbam">>,
       covers |-> <<"jeonyeok">>]
    >>
  ]

\* A faulty lookup: no fallback, a style that the table lacks raises KeyError.
PickFrom_nofallback(table, style) ==
  IF style \in DOMAIN table THEN <<<<table[style].day, table[style].night>>>> ELSE <<>>

\* A faulty lookup: the fallback is the default style of the form.
PickFrom_formdefault(table, style) ==
  LET key == IF style \in DOMAIN table THEN style ELSE "reobeulri"
  IN  IF key \in DOMAIN table THEN <<<<table[key].day, table[key].night>>>> ELSE <<>>

\* STYLE_VARIATIONS.get(style) or STYLE_VARIATIONS["kaejueol"] on the table
\* given: the (day, night) lists, << >> when the fallback key raises KeyError.
PickFrom(table, style) ==
  LET key == IF style \in DOMAIN table THEN style ELSE "kaejueol"
  IN  IF key \in DOMAIN table THEN <<<<table[key].day, table[key].night>>>> ELSE <<>>

\* (day_variations, night_variations); falls back to kaejueol if missing.
pick_variations(style) == PickFrom(STYLE_VARIATIONS, style)

(***************************************************************************)
(* Helpers                                                                 *)
(***************************************************************************)
\* date.isoformat()
IsoFormat(d) == ToString(d)

\* "D-n" before the target day, "D-Day" on it, "D+n" after it.
dday_string(target, today) ==
  LET delta == target - today
  IN  IF delta > 0 THEN <<"D-", ToString(delta)>>
      ELSE IF delta = 0 THEN <<"D-Day">>
      ELSE <<"D+", ToString(0 - delta)>>

\* start_date.month: the month of a day number.
MonthOf(d) ==
  LET ends == <<31, 59, 90, 120, 151, 181, 212, 243, 273, 304, 334, 365>>
      n == ((d - 1) % 365) + 1
  IN  CHOOSE m \in 1..12 : n <= ends[m] /\ (m = 1 \/ n > ends[m - 1])

season_from_month(m) ==
  IF m \in {12, 1, 2} THEN "gyeoul"
  ELSE IF m \in {3, 4, 5} THEN "bom"
  ELSE IF m \in {6, 7, 8} THEN "yeoreum"
  ELSE "gaeul"

\* The season of the user dict of a request.
SeasonOf(start_date) == season_from_month(MonthOf(start_date))

(***************************************************************************)
(* Calendar itinerary (per-day style)                                      *)
(***************************************************************************)
SLOTS == <<"ojeon", "ohu", "jeonyeok">>

\* The characters of a slot name, one per syllable block.
SlotChars(slot) ==
  CASE slot = "ojeon" -> <<"o", "jeon">>
    [] slot = "ohu" -> <<"o", "hu">>
    [] slot = "jeonyeok" -> <<"jeo", "nyeok">>
    [] OTHER -> <<slot>>

\* The placeholder of a slot without a plan.
NoPlan == <<"-">>

\* The style selectbox preselects this style, and every lookup of a day's
\* style defaults to it.
DefaultDayStyle == "reobeulri"

\* dict.get(dkey, "reobeulri") of day_styles, a function on some date keys.
DayStyleOf(day_styles, dkey) ==
  IF dkey \in DOMAIN day_styles THEN day_styles[dkey] ELSE DefaultDayStyle

\* A faulty lookup: the loop over the plans has no break, and the last plan
\* of that date and slot is taken.
PlanTextOf_last(plans, dkey, slot) ==
  LET hits == {j \in 1..Len(plans) : plans[j].date = dkey /\ plans[j].slot = slot}
  IN  IF hits = {} THEN <<>>
      ELSE LET p == plans[CHOOSE j \in hits : \A k \in hits : j >= k]
           IN  Strip(IF Truthy(p.plan) THEN Val(p.plan) ELSE <<>>)

\* (p["plan"] or "").strip() of the first plan of that date and slot, "" if
\* there is none.
PlanTextOf(plans, dkey, slot) ==
  LET hits == {j \in 1..Len(plans) : plans[j].date = dkey /\ plans[j].slot = slot}
  IN  IF hits = {} THEN <<>>
      ELSE LET p == plans[CHOOSE j \in hits : \A k \in hits : j <= k]
           IN  Strip(IF Truthy(p.plan) THEN Val(p.plan) ELSE <<>>)

\* One row per day and slot.  The row keys naljja, sigandae, iljeong and
\* seutail are the fields date, slot, plan and style.
build_calendar_rows(start_date, days, plans, day_styles) ==
  [k \in 1..(days * Len(SLOTS)) |->
     LET i == (k - 1) \div Len(SLOTS)
         slot == SLOTS[((k - 1) % Len(SLOTS)) + 1]
         dkey == IsoFormat(start_date + i)
         plan_text == PlanTextOf(plans, dkey, slot)
     IN  [date |-> dkey,
          slot |-> slot,
          plan |-> IF plan_text # <<>> THEN plan_text ELSE NoPlan,
          style |-> DayStyleOf(day_styles, dkey)]]

(***************************************************************************)
(* MOCK                                                                    *)
(***************************************************************************)
SummaryMax == 80

FreeDay == <<"ga", "byeo", "un", " ", "ja", "yu", " ", "il", "jeong">>

_plan_summary(rows_for_date) ==
  LET planned == SelectSeq(rows_for_date, LAMBDA x : x.plan # NoPlan)
      plans == [j \in 1..Len(planned) |->
                  SlotChars(planned[j].slot) \o <<":">> \o planned[j].plan]
      summary == IF plans # <<>> THEN Join(<<" ", "/", " ">>, plans) ELSE FreeDay
  IN  IF Len(summary) > SummaryMax
        THEN SubSeq(summary, 1, SummaryMax) \o <<"...">>
        ELSE summary

\* The date keys of the rows in order of first appearance (the keys of by_date).
RECURSIVE DateKeys(_, _)
DateKeys(rows, seen) ==
  IF rows = <<>> THEN seen
  ELSE IF \E j \in 1..Len(seen) : seen[j] = Head(rows).date
         THEN DateKeys(Tail(rows), seen)
         ELSE DateKeys(Tail(rows), Append(seen, Head(rows).date))

\* by_date[d]
RowsOf(rows, d) == SelectSeq(rows, LAMBDA r : r.date = d)

has_evening_plan(rows) ==
  \E j \in 1..Len(rows) : rows[j].slot = "jeonyeok" /\ rows[j].plan # NoPlan

WhyPrefix == " gijuneuro guseonghaesseoyo. "

\* A faulty outfit: a sun item is packed when the summary tells a maximum
\* of 26 degrees, and at no other temperature.
OutfitOf_band(v, summary) ==
  PyDict(<<
    <<"title", PyStr(<<v.title>>)>>,
    <<"covers_slots", StrList(v.covers)>>,
    <<"items", PyDict(<<
        <<"top", StrList(v.items.top)>>,
        <<"bottom", StrList(v.items.bottom)>>,
        <<"outer", StrList(v.items.outer)>>,
        <<"shoes", StrList(v.items.shoes)>>,
        <<"accessories", StrList(v.items.accessories)>> >>)>>,
    <<"key_items", StrList(v.key_items)>>,
    <<"why_recommended", PyStr(summary \o <<WhyPrefix, v.why>>)>>,
    <<"packing_checklist",
      StrList(v.checklist \o (IF Len(summary) >= 4 /\ summary[4] = "26"
                                THEN <<"yangsan">> ELSE <<>>))>> >>)

\* A faulty outfit: the checklist lists every garment and key item again.
OutfitOf_packall(v, summary) ==
  PyDict(<<
    <<"title", PyStr(<<v.title>>)>>,
    <<"covers_slots", StrList(v.covers)>>,
    <<"items", PyDict(<<
        <<"top", StrList(v.items.top)>>,
        <<"bottom", StrList(v.items.bottom)>>,
        <<"outer", StrList(v.items.outer)>>,
        <<"shoes", StrList(v.items.shoes)>>,
        <<"accessories", StrList(v.items.accessories)>> >>)>>,
    <<"key_items", StrList(v.key_items)>>,
    <<"why_recommended", PyStr(summary \o <<WhyPrefix, v.why>>)>>,
    <<"packing_checklist",
      StrList(v.checklist \o v.items.top \o v.items.bottom \o v.items.outer
              \o v.items.shoes \o v.items.accessories \o v.key_items)>> >>)

\* The outfit dict built from template v.
OutfitOf(v, summary) ==
  PyDict(<<
    <<"title", PyStr(<<v.title>>)>>,
    <<"covers_slots", StrList(v.covers)>>,
    <<"items", PyDict(<<
        <<"top", StrList(v.items.top)>>,
        <<"bottom", StrList(v.items.bottom)>>,
        <<"outer", StrList(v.items.outer)>>,
        <<"shoes", StrList(v.items.shoes)>>,
        <<"accessories", StrList(v.items.accessories)>> >>)>>,
    <<"key_items", StrList(v.key_items)>>,
    <<"why_recommended", PyStr(summary \o <<WhyPrefix, v.why>>)>>,
    <<"packing_checklist", StrList(v.checklist)>> >>)

\* A faulty choice: a day without an evening plan gets the first day
\* template only.
ChosenOf_single(vars, evening) ==
  IF vars = <<>> THEN <<>>
  ELSE IF Len(vars[1][1]) < 1 THEN <<>>
  ELSE IF evening
    THEN IF Len(vars[1][2]) < 1 THEN <<>>
         ELSE <<<<vars[1][1][1], vars[1][2][1]>>>>
    ELSE <<<<vars[1][1][1]>>>>

\* The two templates chosen for a day among vars = pick_variations(style):
\* the first day template, then the first night template if the evening has
\* a plan, else the second day one.  << >> when pick_variations or an index
\* raises.
ChosenOf(vars, evening) ==
  IF vars = <<>> THEN <<>>
  ELSE IF Len(vars[1][1]) < 1 THEN <<>>
  ELSE IF evening
    THEN IF Len(vars[1][2]) < 1 THEN <<>>
         ELSE <<<<vars[1][1][1], vars[1][2][1]>>>>
    ELSE IF Len(vars[1][1]) < 2 THEN <<>>
         ELSE <<<<vars[1][1][1], vars[1][1][2]>>>>

chosen(style, rows) == ChosenOf(pick_variations(style), has_evening_plan(rows))

\* "city, country" without surrounding blanks and commas.
DestinationOf(city, country) ==
  StripChars(Strip(city \o <<",", " ">> \o country), {","})

\* The entry of a day for the templates vs chosen for it.
DayEntryOf(d, style, rows, vs, summary) ==
  IF vs = <<>> THEN <<>>
  ELSE <<PyDict(<<
         <<"date", PyStr(<<d>>)>>,
         <<"day_style", PyStr(<<style>>)>>,
         <<"day_summary", PyStr(_plan_summary(rows))>>,
         <<"day_outfits",
           PyList([m \in 1..Len(vs[1]) |-> OutfitOf(vs[1][m], summary)])>> >>)>>

\* The entry of date key d, << >> when building it raises.
DayEntry(d, weather, calendar_rows, day_styles) ==
  DayEntryOf(d, DayStyleOf(day_styles, d), RowsOf(calendar_rows, d),
             chosen(DayStyleOf(day_styles, d), RowsOf(calendar_rows, d)),
             weather.summary)

\* The result for the entries of the days, each an optional value.
MockResultOf(dest_card, entries) ==
  IF \E n \in 1..Len(entries) : entries[n] = <<>> THEN <<>>
  ELSE <<PyDict(<<
         <<"destination_card", dest_card>>,
         <<"calendar_outfits",
           PyList([n \in 1..Len(entries) |-> entries[n][1]])>> >>)>>

\* The entries of the date keys, in order.
DayEntries(keys, weather, calendar_rows, day_styles) ==
  [n \in 1..Len(keys) |-> DayEntry(keys[n], weather, calendar_rows, day_styles)]

\* The result dict as an optional value: << >> when the function raises.
mock_generate_calendar(weather, start_date, today, calendar_rows, day_styles) ==
  MockResultOf(
    PyDict(<<
      <<"destination", PyStr(DestinationOf(weather.city, weather.country))>>,
      <<"dday", PyStr(dday_string(start_date, today))>>,
      <<"weather_one_liner", PyStr(weather.summary)>> >>),
    DayEntries(DateKeys(calendar_rows, <<>>), weather, calendar_rows, day_styles))

(***************************************************************************)
(* The text of the model's answer and json.loads                           *)
(*                                                                         *)
(* A text is a sequence of tokens, each one lexical unit of the answer:    *)
(*   <<"p", c>>  the punctuation character c, one of { } [ ] , :           *)
(*   <<"s", x>>  a string literal with content x                           *)
(*   <<"n", k>>  the number k                                              *)
(*   <<"k", w>>  the literal null, true or false                           *)
(*   <<"b", " ">> a blank                                                  *)
(*   <<"w", x>>  a word of prose, which starts no JSON value               *)
(***************************************************************************)
LBrace == <<"p", "{">>
RBrace == <<"p", "}">>
LBracket == <<"p", "[">>
RBracket == <<"p", "]">>
Comma == <<"p", ",">>
Colon == <<"p", ":">>
Blank == <<"b", " ">>
Word == <<"w", "Sure!">>

IsBlank(tok) == tok[1] = "b"

\* text.strip()
StripText(text) ==
  LET ws(i) == IsBlank(text[i])
      first == IF \A i \in 1..Len(text) : ws(i) THEN Len(text) + 1
               ELSE CHOOSE i \in 1..Len(text) :
                      ~ws(i) /\ \A j \in 1..(i - 1) : ws(j)
      last == IF first > Len(text) THEN 0
              ELSE CHOOSE i \in 1..Len(text) :
                     ~ws(i) /\ \A j \in (i + 1)..Len(text) : ws(j)
  IN  SubSeq(text, first, last)

\* The first position at or after i that holds no blank.
RECURSIVE SkipBlanks(_, _)
SkipBlanks(t, i) ==
  IF i <= Len(t) /\ IsBlank(t[i]) THEN SkipBlanks(t, i + 1) ELSE i

\* The dict key of a string literal; the keys of an answer are one piece.
KeyOf(x) == IF x = <<>> THEN "" ELSE x[1]

ParseFail == [ok |-> FALSE, val |-> PyNone, pos |-> 0]
ParseOk(v, p) == [ok |-> TRUE, val |-> v, pos |-> p]

\* The decoder: the value that starts at position i0 and the position after
\* it.  A key that occurs twice keeps its first place and its last value.
RECURSIVE ParseValue(_, _)
RECURSIVE ParsePairs(_, _, _)
RECURSIVE ParseElems(_, _, _)

ParseValue(t, i0) ==
  LET i == SkipBlanks(t, i0)
  IN  IF i > Len(t) THEN ParseFail
      ELSE LET tok == t[i]
           IN  CASE tok[1] = "s" -> ParseOk(PyStr(tok[2]), i + 1)
                 [] tok[1] = "n" -> ParseOk(PyNum(tok[2]), i + 1)
                 [] tok[1] = "k" ->
                      ParseOk(IF tok[2] = "null" THEN PyNone
                              ELSE PyBool(tok[2] = "true"), i + 1)
                 [] tok = LBrace ->
                      LET j == SkipBlanks(t, i + 1)
                      IN  IF j <= Len(t) /\ t[j] = RBrace
                            THEN ParseOk(PyDict(<<>>), j + 1)
                            ELSE ParsePairs(t, j, PyDict(<<>>))
                 [] tok = LBracket ->
                      LET j == SkipBlanks(t, i + 1)
                      IN  IF j <= Len(t) /\ t[j] = RBracket
                            THEN ParseOk(PyList(<<>>), j + 1)
                            ELSE ParseElems(t, j, <<>>)
                 [] OTHER -> ParseFail

\* "key": value pairs from position i on, up to the closing brace.
ParsePairs(t, i, acc) ==
  IF i > Len(t) \/ t[i][1] # "s" THEN ParseFail
  ELSE LET c == SkipBlanks(t, i + 1)
       IN  IF c > Len(t) \/ t[c] # Colon THEN ParseFail
           ELSE LET r == ParseValue(t, c + 1)
                IN  IF ~r.ok THEN ParseFail
                    ELSE LET e == SkipBlanks(t, r.pos)
                             d == DictSet(acc, KeyOf(t[i][2]), r.val)
                         IN  IF e > Len(t) THEN ParseFail
                             ELSE IF t[e] = RBrace THEN ParseOk(d, e + 1)
                             ELSE IF t[e] = Comma
                               THEN ParsePairs(t, SkipBlanks(t, e + 1), d)
                             ELSE ParseFail

\* Values from position i on, up to the closing bracket.
ParseElems(t, i, acc) ==
  LET r == ParseValue(t, i)
  IN  IF ~r.ok THEN ParseFail
      ELSE LET e == SkipBlanks(t, r.pos)
               a == Append(acc, r.val)
           IN  IF e > Len(t) THEN ParseFail
               ELSE IF t[e] = RBracket THEN ParseOk(PyList(a), e + 1)
               ELSE IF t[e] = Comma THEN ParseElems(t, e + 1, a)
               ELSE ParseFail

\* json.loads(text) as an optional value: << >> is JSONDecodeError.
json_loads(text) ==
  LET r == ParseValue(text, 1)
  IN  IF r.ok /\ SkipBlanks(text, r.pos) > Len(text) THEN <<r.val>> ELSE <<>>

\* text.find("{") and text.rfind("}"), 0 for Python's -1.
FindLBrace(text) ==
  IF \E i \in 1..Len(text) : text[i] = LBrace
    THEN CHOOSE i \in 1..Len(text) :
           text[i] = LBrace /\ \A j \in 1..(i - 1) : text[j] # LBrace
    ELSE 0

\* A faulty search: the first "}" instead of the last.
RFindRBrace_first(text) ==
  IF \E i \in 1..Len(text) : text[i] = RBrace
    THEN CHOOSE i \in 1..Len(text) :
           text[i] = RBrace /\ \A j \in 1..(i - 1) : text[j] # RBrace
    ELSE 0

RFindRBrace(text) ==
  IF \E i \in 1..Len(text) : text[i] = RBrace
    THEN CHOOSE i \in 1..Len(text) :
           text[i] = RBrace /\ \A j \in (i + 1)..Len(text) : text[j] # RBrace
    ELSE 0

\* The try/except around json.loads: the whole text, else the substring from
\* the first "{" to the last "}"; << >> when that raises too.
ExtractJson(text) ==
  LET whole == json_loads(text)
      s == FindLBrace(text)
      e == RFindRBrace(text)
  IN  IF whole # <<>> THEN whole
      ELSE IF s # 0 /\ e # 0 /\ e > s THEN json_loads(SubSeq(text, s, e))
      ELSE <<>>

(***************************************************************************)
(* AI with fallback                                                        *)
(*                                                                         *)
(* A step that can raise yields an optional value: << >> when it raises.   *)
(***************************************************************************)
\* hash(v) raises TypeError for a list and for a dict.
Hashable(v) == Tag(v) \notin {"list", "dict"}

\* len(v), defined for str, list and dict.
HasLen(v) == Tag(v) \in {"str", "list", "dict"}

\* day_styles.get(d, "reobeulri") for a Python value d that is hashable.
DayStyleOfValue(day_styles, d) ==
  IF IsStr(d) /\ Len(Val(d)) = 1
    THEN DayStyleOf(day_styles, Val(d)[1])
    ELSE DefaultDayStyle

\* pick_variations(style) for a Python value style that is hashable: only a
\* str can be a key of the template table.
PickOfValue(style) ==
  IF IsStr(style) /\ Len(Val(style)) = 1
    THEN pick_variations(Val(style)[1])
    ELSE pick_variations("")

\* A faulty top-up: one outfit is appended, by an if in place of the while.
FillUp_once(outfits, extra) ==
  IF Len(outfits) < 2 THEN Append(outfits, extra) ELSE outfits

\* outfits.append(...) while len(outfits) < 2
RECURSIVE FillUp(_, _)
FillUp(outfits, extra) ==
  IF Len(outfits) < 2 THEN FillUp(Append(outfits, extra), extra) ELSE outfits

\* The day with its outfits filled up from vars = pick_variations(style).
FilledDay(day, outfits, vars, summary) ==
  IF vars = <<>> THEN <<>>
  ELSE IF Len(vars[1][2]) < 2 THEN <<>>
  ELSE <<DictSet(day, "day_outfits",
                 PyList(FillUp(outfits, OutfitOf(vars[1][2][2], summary))))>>

\* The day whose outfits, fewer than two, are filled up in style.
FillDay(day, outfits, style, summary) ==
  IF ~Hashable(style) THEN <<>>
  ELSE IF ~IsList(outfits) THEN <<>>
  ELSE FilledDay(day, Val(outfits), PickOfValue(style), summary)

\* style = day.get("day_style") or day_styles.get(d, "reobeulri")
StyleOfDay(day_style, d, day_styles) ==
  IF Truthy(day_style) THEN <<day_style>>
  ELSE IF ~Hashable(d) THEN <<>>
  ELSE <<PyStr(<<DayStyleOfValue(day_styles, d)>>)>>

\* The day for outfits = day.get("day_outfits") or [].
TopUpOutfits(day, outfits, style, summary) ==
  IF ~HasLen(outfits) THEN <<>>
  ELSE IF Len(Val(outfits)) >= 2 THEN <<day>>
  ELSE IF style = <<>> THEN <<>>
  ELSE FillDay(day, outfits, style[1], summary)

OrEmptyList(got) == IF Truthy(got) THEN got ELSE PyList(<<>>)

\* The body of the loop for one day of the answer.
TopUpDay(day, weather, day_styles) ==
  IF ~IsDict(day) THEN <<>>
  ELSE TopUpOutfits(day,
                    OrEmptyList(DictGet(day, "day_outfits", PyNone)),
                    StyleOfDay(DictGet(day, "day_style", PyNone),
                               DictGet(day, "date", PyNone), day_styles),
                    weather.summary)

\* h, then r[1], unless one of them raised.
ConsDay(h, r) == IF h = <<>> \/ r = <<>> THEN <<>> ELSE <<<<h[1]>> \o r[1]>>

\* The loop over the days, from the first on; << >> as soon as a day raises.
RECURSIVE TopUpDays(_, _, _)
TopUpDays(days_, weather, day_styles) ==
  IF days_ = <<>> THEN <<<<>>>>
  ELSE ConsDay(TopUpDay(Head(days_), weather, day_styles),
               TopUpDays(Tail(days_), weather, day_styles))

\* A faulty return: a new dict that holds the calendar only.
WithDays_calendar_only(data, r) ==
  IF r = <<>> THEN <<>>
  ELSE <<PyDict(<< <<"calendar_outfits", PyList(r[1])>> >>)>>

\* data with the days r of its calendar.
WithDays(data, r) ==
  IF r = <<>> THEN <<>>
  ELSE IF HasKey(data, "calendar_outfits")
    THEN <<DictSet(data, "calendar_outfits", PyList(r[1]))>>
    ELSE <<data>>

\* The loop over cal = data.get("calendar_outfits", []).
TopUpCal(data, cal, weather, day_styles) ==
  CASE IsList(cal) -> WithDays(data, TopUpDays(Val(cal), weather, day_styles))
    [] Tag(cal) \in {"str", "dict"} ->
         \* iterates characters or keys, which have no get()
         IF Val(cal) = <<>> THEN <<data>> ELSE <<>>
    [] OTHER -> <<>>

\* A faulty loop: data that is no dict is returned as it is.
TopUp_unchecked(data, weather, day_styles) ==
  IF ~IsDict(data) THEN <<data>>
  ELSE TopUpCal(data, DictGet(data, "calendar_outfits", PyList(<<>>)), weather, day_styles)

\* for day in data.get("calendar_outfits", []): ...
TopUp(data, weather, day_styles) ==
  IF ~IsDict(data) THEN <<>>
  ELSE TopUpCal(data, DictGet(data, "calendar_outfits", PyList(<<>>)), weather, day_styles)

\* What the model answers to one request.
RespRaiseClient == <<"raise_client">>
RespRaiseCall == <<"raise_call">>
RespNoText == <<"no_text">>
RespText(text) == <<"text", text>>

\* (resp.output_text or "").strip()
OutputText(resp) == IF resp[1] = "text" THEN StripText(resp[2]) ELSE <<>>

\* The loop on the parsed data, an optional value.
TopUpParsed(data, weather, day_styles) ==
  IF data = <<>> THEN <<>> ELSE TopUp(data[1], weather, day_styles)

\* The try block after the client and the call returned: the value returned
\* with used_fallback = False, or << >> when anything in it raised.
AiResult(resp, weather, day_styles) ==
  IF resp[1] \in {"raise_client", "raise_call"} THEN <<>>
  ELSE TopUpParsed(ExtractJson(OutputText(resp)), weather, day_styles)

\* A faulty order: the client is built and called before the key is looked at.
CallsModel_keyless(openai_key, resp) == resp # RespRaiseClient

\* Whether the request reaches client.responses.create.
CallsModel(openai_key, resp) == openai_key # <<>> /\ resp # RespRaiseClient

\* The return of the mock result, an optional value.
Fallback(mock) == IF mock = <<>> THEN <<>> ELSE <<<<mock[1], TRUE>>>>

\* The return for the outcome r of the try block.
AiOrFallback(r, mock) == IF r # <<>> THEN <<<<r[1], FALSE>>>> ELSE Fallback(mock)

\* <<result, used_fallback>> as an optional value: << >> when an exception
\* leaves the function, which only the mock call of a return can raise.
generate_with_ai_or_fallback(openai_key, resp, weather, start_date, today, calendar_rows, day_styles) ==
  IF openai_key = <<>>
    THEN Fallback(mock_generate_calendar(weather, start_date, today,
                                         calendar_rows, day_styles))
    ELSE AiOrFallback(AiResult(resp, weather, day_styles),
                      mock_generate_calendar(weather, start_date, today,
                                             calendar_rows, day_styles))

(***************************************************************************)
(* Weather (Open-Meteo)                                                    *)
(*                                                                         *)
(* The numbers of a forecast are in tenths: <<"num", 215>> is 21.5.        *)
(***************************************************************************)
\* The summary when there is no forecast.
NoWeather == <<"nalssi jeongbo eopseum">>

\* A faulty reading: a first element that is falsy, such as 0, counts as
\* absent.
FirstOrNone_falsy(got) ==
  IF Truthy(got) /\ Truthy(Val(got)[1]) THEN Val(got)[1] ELSE PyNone

\* (d.get(key) or [None])[0] for the value got of d.get(key)
FirstOrNone(got) == IF Truthy(got) THEN Val(got)[1] ELSE PyNone

\* f"{x:.0f}" of x tenths: rounds half to even, keeps the sign of a negative.
Fmt0f(x) ==
  LET a == IF x < 0 THEN 0 - x ELSE x
      q == a \div 10
      r == a % 10
      n == IF r > 5 \/ (r = 5 /\ q % 2 = 1) THEN q + 1 ELSE q
  IN  IF x < 0 THEN <<"-", ToString(n)>> ELSE <<ToString(n)>>

\* The summary of the "daily" dict of the answer, given as the values of
\* d.get(...) for its three keys.
fetch_weather_one_liner(daily) ==
  LET tmin == FirstOrNone(daily.temperature_2m_min)
      tmax == FirstOrNone(daily.temperature_2m_max)
      pmax == FirstOrNone(daily.precipitation_probability_max)
      temps == <<"T ">> \o Fmt0f(Val(tmin)) \o <<"deg~">> \o Fmt0f(Val(tmax)) \o <<"deg">>
  IN  IF tmin = PyNone \/ tmax = PyNone THEN NoWeather
      ELSE IF pmax # PyNone
        THEN Join(<<" . ">>, <<temps, <<"R ">> \o Fmt0f(Val(pmax)) \o <<"%">> >>)
        ELSE Join(<<" . ">>, <<temps>>)

(***************************************************************************)
(* UI render                                                               *)
(***************************************************************************)
\* Whether a value can be iterated.
Iterable(v) == Tag(v) \in {"str", "list", "dict"}

\* " . ".join(slots) raises unless every element is a str; the elements of
\* a str are its characters, those of a dict its keys.
JoinRaises(slots) ==
  \/ ~Iterable(slots)
  \/ IsList(slots) /\ \E i \in 1..Len(Val(slots)) : ~IsStr(Val(slots)[i])

\* render_outfit raises.
RenderOutfitRaises(outfit) ==
  \/ ~IsDict(outfit)
  \/ /\ IsDict(outfit)
     /\ LET slots == DictGet(outfit, "covers_slots", PyList(<<>>))
            items == DictGet(outfit, "items", PyDict(<<>>))
            key_items == DictGet(outfit, "key_items", PyList(<<>>))
            checklist == DictGet(outfit, "packing_checklist", PyList(<<>>))
        IN  \/ Truthy(slots) /\ JoinRaises(slots)
            \/ ~IsDict(items)
            \/ /\ IsDict(items)
               /\ \E cat \in {"top", "bottom", "outer", "shoes", "accessories"} :
                    LET got == DictGet(items, cat, PyList(<<>>))
                    IN  Truthy(got) /\ ~Iterable(got)
            \/ ~Iterable(key_items)
            \/ Tag(checklist) \notin {"str", "list"}

\* The outfits that are passed to render_outfit for a day of the result.
OutfitsToRender(day) ==
  LET got == DictGet(day, "day_outfits", PyList(<<>>))
      outfits == IF Truthy(got) THEN got ELSE PyList(<<>>)
  IN  IF IsList(outfits) THEN Val(outfits)
      ELSE IF IsStr(outfits) THEN [i \in 1..Len(Val(outfits)) |-> PyStr(<<Val(outfits)[i]>>)]
      ELSE IF IsDict(outfits) THEN [i \in 1..Len(Val(outfits)) |-> PyStr(<<Val(outfits)[i][1]>>)]
      ELSE <<>>

\* The body of the loop over the tabs raises for this day.
RenderDayRaises(day, day_styles) ==
  \/ /\ ~Truthy(DictGet(day, "day_style", PyNone))
     /\ ~Hashable(DictGet(day, "date", PyNone))
  \/ LET got == DictGet(day, "day_outfits", PyList(<<>>))
     IN  Truthy(got) /\ ~HasLen(got)
  \/ \E k \in 1..Len(OutfitsToRender(day)) : RenderOutfitRaises(OutfitsToRender(day)[k])

\* dest_card after the three setdefault calls, << >> when setdefault raises.
CardToRender(result, city, country, start_date, today, wx) ==
  LET dest_card == DictGet(result, "destination_card", PyDict(<<>>))
  IN  IF ~IsDict(dest_card) THEN <<>>
      ELSE <<DictSetDefault(
               DictSetDefault(
                 DictSetDefault(dest_card, "destination",
                                PyStr(DestinationOf(city, country))),
                 "dday", PyStr(dday_string(start_date, today))),
               "weather_one_liner", PyStr(wx))>>

\* How the render part of the script ends: "rendered", "retry" (the notice
\* of an empty calendar, then st.stop) or "crashed" (an exception leaves it).
RenderOutcome(result, day_styles, city, country, start_date, today, wx) ==
  LET cal == DictGet(result, "calendar_outfits", PyList(<<>>))
  IN  IF CardToRender(result, city, country, start_date, today, wx) = <<>>
        THEN "crashed"
      ELSE IF ~Truthy(cal) THEN "retry"
      ELSE IF ~IsList(cal) THEN "crashed"
      ELSE IF \E n \in 1..Len(Val(cal)) :
                ~IsDict(Val(cal)[n]) \/ ~HasKey(Val(cal)[n], "date")
        THEN "crashed"
      ELSE IF \E n \in 1..Len(Val(cal)) : RenderDayRaises(Val(cal)[n], day_styles)
        THEN "crashed"
      ELSE "rendered"

(***************************************************************************)
(* Inputs                                                                  *)
(***************************************************************************)
\* The longest trip, the longest plans list and the longest prose around
\* the model's answer that are explored.
MaxDays == 2
MaxPlans == 2
MaxProse == 1

StartDates == {9}
Todays == {5}

\* A style that is no key of the template table.
UnknownStyle == "peuraepi"
StyleInputs == {STYLE_OPTIONS[i] : i \in 1..Len(STYLE_OPTIONS)} \cup {UnknownStyle}

\* The date keys of a trip.
DateKeysOf(start, n) == {IsoFormat(start + i) : i \in 0..(n - 1)}

\* Every dict from some of the date keys to styles.
StyleDicts(keys, styles) ==
  UNION {[dom -> styles] : dom \in SUBSET keys}

\* Sequences of at most n elements of S.
SeqUpTo(S, n) == UNION {[1..m -> S] : m \in 0..n}

\* The texts a user leaves in a plan box: nothing, a blank, a letter, the
\* dash itself, a padded letter.
PlanTexts == {<<>>, <<" ">>, <<"a">>, <<"-">>, <<" ", "a", " ">>}

\* The texts of the plan boxes of a slot: every text in the evening box,
\* which decides the second outfit, fewer in the others.
SlotNames == {SLOTS[j] : j \in 1..Len(SLOTS)}

RichTexts ==
  [slot \in SlotNames |->
     CASE slot = "jeonyeok" -> PlanTexts
       [] slot = "ohu" -> {<<>>, <<"a">>}
       [] OTHER -> {<<>>}]

PlainTexts == [slot \in SlotNames |-> IF slot = "jeonyeok" THEN {<<>>, <<"a">>} ELSE {<<>>}]

NoTexts == [slot \in SlotNames |-> {<<>>}]

\* The entry of the k-th box of the form, with text t.
FormEntry(start, k, t) ==
  [date |-> IsoFormat(start + ((k - 1) \div Len(SLOTS))),
   slot |-> SLOTS[((k - 1) % Len(SLOTS)) + 1],
   plan |-> PyStr(t)]

\* The lists of the first k entries of the form, the text of each box
\* among texts[slot].
RECURSIVE FormEntries(_, _, _)
FormEntries(start, k, texts) ==
  IF k = 0 THEN {<<>>}
  ELSE {Append(p, FormEntry(start, k, t)) :
          p \in FormEntries(start, k - 1, texts),
          t \in texts[SLOTS[((k - 1) % Len(SLOTS)) + 1]]}

\* The plans list the form builds: one entry per day and slot, in order.
FormPlans(start, n, texts) == FormEntries(start, n * Len(SLOTS), texts)

\* Any list of plans, with entries that are missing, repeated or without text.
ListValues == {PyNone, PyStr(<<" ", "a", " ">>)}
PlanEntries(keys) ==
  [date : keys, slot : SlotNames, plan : ListValues]

\* The trips of the generator runs: every style dict with plain plans,
\* every form text with a style or none, and any list of plans.
TripInputs(start, n) ==
  LET keys == DateKeysOf(start, n)
  IN  ({"styles"} \X StyleDicts(keys, StyleInputs) \X FormPlans(start, n, PlainTexts))
      \cup ({"texts"} \X StyleDicts(keys, {"minimeol"}) \X FormPlans(start, n, RichTexts))
      \cup ({"lists"} \X {<<>>} \X SeqUpTo(PlanEntries(keys), MaxPlans))

\* The forecast answers: each of the three daily series is missing or null,
\* empty, a list with a null, or a list with a number of tenths.
SeriesValues(nums) ==
  {PyNone, PyList(<<>>), PyList(<<PyNone>>)} \cup {PyList(<<PyNum(x)>>) : x \in nums}

Forecasts(nums) ==
  {<<"error">>} \cup
  {<<"daily", d>> : d \in [temperature_2m_min : SeriesValues(nums),
                            temperature_2m_max : SeriesValues(nums),
                            precipitation_probability_max : SeriesValues(nums)]}

\* A summary of a forecast with all three numbers.
SampleSummary ==
  fetch_weather_one_liner([temperature_2m_min |-> PyList(<<PyNum(-4)>>),
                           temperature_2m_max |-> PyList(<<PyNum(125)>>),
                           precipitation_probability_max |-> PyList(<<PyNum(400)>>)])

WeatherInfo(city, country, summary) ==
  [city |-> city, country |-> country, summary |-> summary]

(***************************************************************************)
(* State                                                                   *)
(***************************************************************************)
VARIABLES
  destination_input,  \* the destination box
  use_ai,             \* the AI toggle
  openai_key,         \* the key box
  start_date, days,   \* the trip
  plans, day_styles,  \* what the day tabs collect
  today,              \* date.today()
  calendar_rows,      \* build_calendar_rows(...) of this run, << >> before
  pc,                 \* where the run is
  geo,                \* the match of the geocoding lookup, as an optional value
  weather,            \* the WeatherInfo of the request
  daily,              \* the "daily" dict of the forecast answer, as an optional value
  resp,               \* what the model answered in this request
  result,             \* the result dict
  used_fallback,
  calls,              \* the lookups, model calls and mock calls of this request
                      \* in order, each <<what, how it ended>>
  outcome             \* how the request ended

inputs == <<destination_input, use_ai, openai_key, start_date, days, plans,
            day_styles, today>>
vars == <<destination_input, use_ai, openai_key, start_date, days, plans,
          day_styles, today, calendar_rows, pc, geo, weather, daily, resp, result,
          used_fallback, calls, outcome>>

NoResp == <<"unused">>
NoInfo == WeatherInfo(<<>>, <<>>, <<>>)

\* Nothing of a request is set.
Fresh ==
  /\ calendar_rows = <<>>
  /\ geo = <<>>
  /\ daily = <<>>
  /\ resp = NoResp
  /\ result = PyNone
  /\ used_fallback = FALSE
  /\ calls = <<>>
  /\ outcome = "none"

(***************************************************************************)
(* The fallback generator on the rows of a trip                            *)
(***************************************************************************)
Summaries == {NoWeather, SampleSummary}

InitMock ==
  /\ destination_input = <<"P">>
  /\ use_ai = FALSE
  /\ openai_key = <<>>
  /\ start_date \in StartDates
  /\ days \in 1..MaxDays
  /\ \E trip \in TripInputs(start_date, days) :
       /\ day_styles = trip[2]
       /\ plans = trip[3]
  /\ today \in Todays
  /\ weather \in {WeatherInfo(<<"P">>, <<"F">>, s) : s \in Summaries}
  /\ pc = "mock_call"
  /\ Fresh

\* The return of the mock call, an optional value.
MockReturn(mock, done, raised) ==
  IF mock = <<>>
    THEN /\ pc' = raised
         /\ UNCHANGED <<result, used_fallback>>
    ELSE /\ pc' = done
         /\ result' = mock[1]
         /\ used_fallback' = TRUE

MockOn(rows) ==
  /\ calendar_rows' = rows
  /\ MockReturn(mock_generate_calendar(weather, start_date, today, rows, day_styles),
                "mock_done", "mock_raised")

\* calendar_rows = build_calendar_rows(...); mock_generate_calendar(...)
MockCall ==
  /\ pc = "mock_call"
  /\ MockOn(build_calendar_rows(start_date, days, plans, day_styles))
  /\ calls' = Append(calls, <<"mock", "ok">>)
  /\ UNCHANGED <<inputs, geo, weather, daily, resp, outcome>>

NextMock == MockCall

SpecMock == InitMock /\ [][NextMock]_vars
(***************************************************************************)
(* The answers of the model                                                *)
(***************************************************************************)
\* The tokens of a value as json.dumps writes it, without blanks.
RECURSIVE Dumps(_)
RECURSIVE DumpsAll(_, _)
Dumps(v) ==
  CASE Tag(v) = "none" -> << <<"k", "null">> >>
    [] Tag(v) = "bool" -> << <<"k", IF Val(v) THEN "true" ELSE "false">> >>
    [] Tag(v) = "num" -> << <<"n", Val(v)>> >>
    [] Tag(v) = "str" -> << <<"s", Val(v)>> >>
    [] Tag(v) = "list" -> <<LBracket>> \o DumpsAll(Val(v), FALSE) \o <<RBracket>>
    [] OTHER -> <<LBrace>> \o DumpsAll(Val(v), TRUE) \o <<RBrace>>

\* The elements of a list, or the pairs of a dict, separated by commas.
DumpsAll(s, pairs) ==
  IF s = <<>> THEN <<>>
  ELSE LET h == IF pairs
                  THEN << <<"s", <<Head(s)[1]>> >>, Colon >> \o Dumps(Head(s)[2])
                  ELSE Dumps(Head(s))
       IN  IF Len(s) = 1 THEN h ELSE h \o <<Comma>> \o DumpsAll(Tail(s), pairs)

\* An optional "key": value pair of a dict.
Absent == <<>>
Field(k, opt) == IF opt = Absent THEN <<>> ELSE << <<k, opt[1]>> >>
Maybe(S) == {Absent} \cup {<<v>> : v \in S}

\* An outfit as the prompt asks for it.
AnswerOutfit(title) ==
  PyDict(<<
    <<"title", PyStr(<<title>>)>>,
    <<"covers_slots", StrList(<<"ojeon", "ohu">>)>>,
    <<"items", PyDict(<< <<"top", StrList(<<"syeocheu">>)>>,
                         <<"shoes", StrList(<<"ropeo">>)>> >>)>>,
    <<"key_items", StrList(<<"syeocheu", "ropeo">>)>>,
    <<"why_recommended", PyStr(<<"gabyeopge">>)>>,
    <<"packing_checklist", StrList(<<"yangmal">>)>> >>)

AnswerCard ==
  PyDict(<< <<"destination", PyStr(<<"P, F">>)>>,
            <<"dday", PyStr(<<"D-4">>)>>,
            <<"weather_one_liner", PyStr(<<"malgeum">>)>> >>)

AnswerDay(date, day_style, day_outfits) ==
  PyDict(Field("date", date) \o Field("day_style", day_style)
         \o << <<"day_summary", PyStr(<<"sanchaek">>)>> >>
         \o Field("day_outfits", day_outfits))

\* What an answer may hold for the date, the style and the outfits of a day:
\* what the prompt asks for, and values of other types.
AnswerDates == Maybe({PyStr(<<"9">>), PyStr(<<"10">>), PyNone, PyList(<<>>)})
AnswerStyles ==
  Maybe({PyStr(<<"minimeol">>), PyStr(<<UnknownStyle>>), PyStr(<<>>), PyList(<<PyNum(1)>>)})
AnswerOutfitLists ==
  Maybe({PyList(<<AnswerOutfit("a"), AnswerOutfit("b")>>),
         PyList(<<AnswerOutfit("a")>>),
         PyList(<<>>),
         PyNone,
         PyList(<<PyNum(1)>>),
         PyStr(<<"a">>),
         PyStr(<<"a", "b">>),
         PyDict(<< <<"a", PyNum(1)>> >>),
         PyNum(2)})

AnswerDays ==
  {AnswerDay(d, s, o) : d \in AnswerDates, s \in AnswerStyles, o \in AnswerOutfitLists}

\* A day entry exactly as the prompt asks for it.
GoodDay(key) ==
  AnswerDay(<<PyStr(<<key>>)>>, <<PyStr(<<"minimeol">>)>>,
            <<PyList(<<AnswerOutfit("a"), AnswerOutfit("b")>>)>>)

AnswerCalendars ==
  Maybe({PyList(<<>>), PyNone, PyNum(1), PyStr(<<>>), PyStr(<<"a">>), PyDict(<<>>),
         PyList(<<PyNum(1)>>),
         PyList(<<GoodDay("9"), GoodDay("10")>>)}
        \cup {PyList(<<d>>) : d \in AnswerDays}
        \cup {PyList(<<GoodDay("9"), d>>) : d \in {AnswerDay(Absent, Absent, o) :
                                                     o \in AnswerOutfitLists}})

AnswerCards == Maybe({AnswerCard, PyDict(<<>>), PyStr(<<"P">>), PyNone})

\* The values an answer may spell: objects, and values that are no object.
AnswerValues ==
  {PyDict(Field("destination_card", c) \o Field("calendar_outfits", cal)) :
     c \in AnswerCards, cal \in AnswerCalendars}
  \cup {PyList(<<GoodDay("9")>>), PyStr(<<"a">>), PyNum(1), PyNone}

\* An answer exactly as the prompt asks for it.
GoodAnswer ==
  PyDict(<< <<"destination_card", AnswerCard>>,
            <<"calendar_outfits", PyList(<<GoodDay("9")>>)>> >>)

\* Prose before or after the value: words, blanks and stray braces.
ProseTokens == {Word, Blank, LBrace, RBrace}
Prose == SeqUpTo(ProseTokens, MaxProse)

\* The texts with prose: around a good answer, around an empty object,
\* around an answer cut off before its end, and around nothing.
ProseBodies ==
  {Dumps(GoodAnswer), Dumps(PyDict(<<>>)),
   SubSeq(Dumps(GoodAnswer), 1, Len(Dumps(GoodAnswer)) - 1), <<>>}

AnswerTexts ==
  {Dumps(v) : v \in AnswerValues}
  \cup {pre \o body \o post : pre \in Prose, body \in ProseBodies, post \in Prose}

Responses ==
  {RespRaiseClient, RespRaiseCall, RespNoText} \cup {RespText(t) : t \in AnswerTexts}

(***************************************************************************)
(* generate_with_ai_or_fallback on the answers                             *)
(***************************************************************************)
Keys == {<<>>, <<"sk">>}

\* Trips of a style or none on every day, no text in any box.
PlainTrips(start, n) ==
  {<<[k \in dom |-> "minimeol"], p>> :
     dom \in {{}, DateKeysOf(start, n)}, p \in FormPlans(start, n, NoTexts)}

InitGen ==
  /\ destination_input = <<"P">>
  /\ use_ai = TRUE
  /\ openai_key \in Keys
  /\ start_date \in StartDates
  /\ days \in 1..MaxDays
  /\ \E trip \in PlainTrips(start_date, days) :
       /\ day_styles = trip[1]
       /\ plans = trip[2]
  /\ today \in Todays
  /\ weather = WeatherInfo(<<"P">>, <<"F">>, SampleSummary)
  /\ pc = "gen_call"
  /\ Fresh

\* The return g of generate_with_ai_or_fallback for the answer r.
Generated(r, g, done, raised) ==
  /\ resp' = r
  /\ calls' = calls
              \o (IF CallsModel(openai_key, r)
                    THEN << <<"model", IF r = RespRaiseCall THEN "error" ELSE "ok">> >>
                    ELSE <<>>)
              \o (IF g = <<>> THEN << <<"mock", "error">> >>
                  ELSE IF g[1][2] THEN << <<"mock", "ok">> >>
                  ELSE <<>>)
  /\ IF g = <<>>
       THEN /\ pc' = raised
            /\ UNCHANGED <<result, used_fallback>>
       ELSE /\ pc' = done
            /\ result' = g[1][1]
            /\ used_fallback' = g[1][2]

\* The step of one request that generates, for the answer r of the model
\* and the rows of the run.
Generate(r, rows, from, done, raised) ==
  /\ pc = from
  /\ calendar_rows' = rows
  /\ Generated(r, generate_with_ai_or_fallback(openai_key, r, weather, start_date,
                                               today, rows, day_styles),
               done, raised)
  /\ UNCHANGED <<inputs, geo, weather, daily, outcome>>

\* Without a key no answer is asked for.
GenCallOn(rows) ==
  IF openai_key = <<>>
    THEN Generate(NoResp, rows, "gen_call", "gen_done", "gen_raised")
    ELSE \E r \in Responses : Generate(r, rows, "gen_call", "gen_done", "gen_raised")

GenCall == GenCallOn(build_calendar_rows(start_date, days, plans, day_styles))

NextGen == GenCall

SpecGen == InitGen /\ [][NextGen]_vars
(***************************************************************************)
(* App: one press of the button                                            *)
(***************************************************************************)
Destinations == {<<>>, <<" ">>, <<"P", "a">>, <<" ", "P">>}

\* The answers of the geocoding lookup: an error, no match, or a match
\* with or without a name and a country.
GeoOutcomes ==
  {<<"error">>, <<"none">>}
  \cup {<<"match", PyDict(Field("name", n) \o Field("country", c)
                          \o << <<"latitude", PyNum(48)>>, <<"longitude", PyNum(2)>> >>)>> :
          n \in Maybe({PyStr(<<"Paris">>)}), c \in Maybe({PyStr(<<"F">>)})}

ForecastNumbers == {0, 125}

\* An answer whose card holds none of its keys.
CardEmpty ==
  PyDict(<< <<"destination_card", PyDict(<<>>)>>,
            <<"calendar_outfits", PyList(<<GoodDay("9")>>)>> >>)

\* Answers that are valid JSON of an unexpected shape: a card that is no
\* object, a day without a date, outfits that are no list.
CardNoObject == PyDict(<< <<"destination_card", PyStr(<<"a">>)>> >>)
DayNoDate ==
  PyDict(<< <<"calendar_outfits",
              PyList(<<AnswerDay(Absent, <<PyStr(<<"minimeol">>)>>,
                                 <<PyList(<<AnswerOutfit("a"), AnswerOutfit("b")>>)>>)>>)>> >>)
OutfitsNoList ==
  PyDict(<< <<"calendar_outfits",
              PyList(<<AnswerDay(<<PyStr(<<"9">>)>>, <<PyStr(<<"minimeol">>)>>,
                                 <<PyStr(<<"a", "b">>)>>)>>)>> >>)

\* The answers of the model that a press of the button explores.
FlowResponses ==
  {RespRaiseClient, RespRaiseCall, RespNoText,
   RespText(<<Word>>),
   RespText(Dumps(GoodAnswer)),
   RespText(<<Word, Blank>> \o Dumps(GoodAnswer) \o <<Blank, Word>>),
   RespText(Dumps(PyDict(<< <<"calendar_outfits",
                             PyList(<<AnswerDay(<<PyStr(<<"9">>)>>, Absent,
                                                <<PyList(<<AnswerOutfit("a")>>)>>)>>)>> >>))),
   RespText(Dumps(PyDict(<<>>))),
   RespText(Dumps(CardEmpty)),
   RespText(Dumps(CardNoObject)),
   RespText(Dumps(DayNoDate)),
   RespText(Dumps(OutfitsNoList))}

Init ==
  /\ destination_input \in Destinations
  /\ use_ai \in BOOLEAN
  /\ openai_key \in Keys
  /\ start_date \in StartDates
  /\ days \in 1..MaxDays
  /\ \E trip \in PlainTrips(start_date, days) :
       /\ day_styles = trip[1]
       /\ plans = trip[2]
  /\ today \in Todays
  /\ weather = NoInfo
  /\ pc = "form"
  /\ Fresh

\* A faulty step: the destination is not looked at.
Press_unchecked ==
  /\ pc = "form"
  /\ calendar_rows' = build_calendar_rows(start_date, days, plans, day_styles)
  /\ pc' = "geocode"
  /\ UNCHANGED <<inputs, outcome, geo, weather, daily, resp, result, used_fallback, calls>>

\* The script runs down to the button, which was pressed: the rows are
\* built, and a blank destination stops the run.
Press ==
  /\ pc = "form"
  /\ calendar_rows' = build_calendar_rows(start_date, days, plans, day_styles)
  /\ IF Strip(destination_input) = <<>>
       THEN /\ outcome' = "need_destination"
            /\ pc' = "stopped"
       ELSE /\ pc' = "geocode"
            /\ UNCHANGED outcome
  /\ UNCHANGED <<inputs, geo, weather, daily, resp, result, used_fallback, calls>>

\* A faulty step: the error is shown, but the run goes on without a match.
Geocode_nostop ==
  /\ pc = "geocode"
  /\ \E g \in GeoOutcomes :
       LET found == IF g[1] = "match" THEN g[2] ELSE PyNone
       IN  /\ calls' = Append(calls, <<"geocode", g[1]>>)
           /\ geo' = <<IF Truthy(found) THEN found ELSE PyDict(<<>>)>>
           /\ IF ~Truthy(found)
                THEN outcome' = "city_not_found"
                ELSE UNCHANGED outcome
  /\ pc' = "weather"
  /\ UNCHANGED <<inputs, calendar_rows, weather, daily, resp, result, used_fallback>>

\* 1) geocode: an error counts as no match, and no match stops the run.
Geocode ==
  /\ pc = "geocode"
  /\ \E g \in GeoOutcomes :
       LET found == IF g[1] = "match" THEN g[2] ELSE PyNone
       IN  /\ calls' = Append(calls, <<"geocode", g[1]>>)
           /\ IF ~Truthy(found)
                THEN /\ outcome' = "city_not_found"
                     /\ pc' = "stopped"
                     /\ UNCHANGED geo
                ELSE /\ geo' = <<found>>
                     /\ pc' = "weather"
                     /\ UNCHANGED outcome
  /\ UNCHANGED <<inputs, calendar_rows, weather, daily, resp, result, used_fallback>>

\* A faulty step: an error of the lookup leaves the script.
Weather_stops ==
  /\ pc = "weather"
  /\ \E f \in Forecasts(ForecastNumbers) :
       LET city == Val(DictGet(geo[1], "name", PyStr(Strip(destination_input))))
           country == Val(DictGet(geo[1], "country", PyStr(<<>>)))
       IN  /\ calls' = Append(calls, <<"forecast", IF f[1] = "error" THEN "error" ELSE "ok">>)
           /\ IF f[1] = "error"
                THEN /\ pc' = "crashing"
                     /\ UNCHANGED <<weather, daily>>
                ELSE /\ pc' = "generate"
                     /\ weather' = WeatherInfo(city, country, fetch_weather_one_liner(f[2]))
                     /\ daily' = <<f[2]>>
  /\ UNCHANGED <<inputs, calendar_rows, geo, resp, result, used_fallback, outcome>>

\* 2) weather: an error of the lookup gives the summary of no forecast.
Weather ==
  /\ pc = "weather"
  /\ \E f \in Forecasts(ForecastNumbers) :
       LET wx == IF f[1] = "error" THEN NoWeather ELSE fetch_weather_one_liner(f[2])
           city == Val(DictGet(geo[1], "name", PyStr(Strip(destination_input))))
           country == Val(DictGet(geo[1], "country", PyStr(<<>>)))
       IN  /\ calls' = Append(calls, <<"forecast", IF f[1] = "error" THEN "error" ELSE "ok">>)
           /\ weather' = WeatherInfo(city, country, wx)
           /\ daily' = IF f[1] = "error" THEN <<>> ELSE <<f[2]>>
  /\ pc' = "generate"
  /\ UNCHANGED <<inputs, calendar_rows, geo, resp, result, used_fallback, outcome>>

\* 3) AI / fallback: an exception that leaves the step ends the run.
GenerateStep ==
  /\ pc = "generate"
  /\ \/ /\ use_ai
        /\ IF openai_key = <<>>
             THEN Generate(NoResp, calendar_rows, "generate", "render", "crashing")
             ELSE \E r \in FlowResponses :
                    Generate(r, calendar_rows, "generate", "render", "crashing")
     \/ /\ ~use_ai
        /\ MockReturn(mock_generate_calendar(weather, start_date, today,
                                             calendar_rows, day_styles),
                      "render", "crashing")
        /\ calls' = Append(calls, <<"mock", "ok">>)
        /\ UNCHANGED <<inputs, calendar_rows, geo, weather, daily, resp, outcome>>

\* An exception left the script: the run ends with the error shown.
Crash ==
  /\ pc = "crashing"
  /\ pc' = "stopped"
  /\ outcome' = "crashed"
  /\ UNCHANGED <<inputs, calendar_rows, geo, weather, daily, resp, result, used_fallback, calls>>

\* A faulty render: the days are taken off the list of the result as they
\* are shown.
WithCard_consumes(res, card) ==
  IF HasKey(res, "calendar_outfits")
    THEN DictSet(res, "calendar_outfits", PyList(<<>>))
    ELSE res

\* The result with the card that was rendered.
WithCard(res, card) ==
  IF card # <<>> /\ HasKey(res, "destination_card")
    THEN DictSet(res, "destination_card", card[1])
    ELSE res

\* How a render that ended with outcome o leaves the run.
Rendered(o) ==
  IF o = "crashed"
    THEN /\ pc' = "crashing"
         /\ UNCHANGED outcome
    ELSE /\ pc' = "stopped"
         /\ outcome' = o

\* Render: the card with its defaults filled in, then the days.
Render ==
  /\ pc = "render"
  /\ result' = WithCard(result, CardToRender(result, weather.city, weather.country,
                                             start_date, today, weather.summary))
  /\ Rendered(RenderOutcome(result, day_styles, weather.city, weather.country,
                            start_date, today, weather.summary))
  /\ UNCHANGED <<inputs, calendar_rows, geo, weather, daily, resp, used_fallback, calls>>

\* The next interaction: the boxes may change, and the script runs again.
Again ==
  /\ pc = "stopped"
  /\ destination_input' \in Destinations
  /\ use_ai' \in BOOLEAN
  /\ openai_key' \in Keys
  /\ pc' = "form"
  /\ weather' = NoInfo
  /\ daily' = <<>>
  /\ calendar_rows' = <<>>
  /\ geo' = <<>>
  /\ resp' = NoResp
  /\ result' = PyNone
  /\ used_fallback' = FALSE
  /\ calls' = <<>>
  /\ outcome' = "none"
  /\ UNCHANGED <<start_date, days, plans, day_styles, today>>

Next == Press \/ Geocode \/ Weather \/ GenerateStep \/ Crash \/ Render \/ Again

Spec == Init /\ [][Next]_vars

(***************************************************************************)
(* fetch_weather_one_liner on the answers of the forecast service          *)
(***************************************************************************)
\* The numbers of the answers, in tenths: 0, 12.5 and -0.4.
WeatherNumbers == {0, 125, 0 - 4}

InitWeather ==
  /\ destination_input = <<"P">>
  /\ use_ai = FALSE
  /\ openai_key = <<>>
  /\ start_date \in StartDates
  /\ days = 1
  /\ day_styles = <<>>
  /\ plans = <<>>
  /\ today \in Todays
  /\ weather = NoInfo
  /\ pc = "forecast_call"
  /\ Fresh

\* wx = fetch_weather_one_liner(lat, lon, start_date), for every answer of
\* the service: the call returns a summary, or raises.
ForecastCall ==
  /\ pc = "forecast_call"
  /\ \E f \in Forecasts(WeatherNumbers) :
       /\ calls' = Append(calls, <<"forecast", IF f[1] = "error" THEN "error" ELSE "ok">>)
       /\ IF f[1] = "error"
            THEN /\ pc' = "forecast_raised"
                 /\ UNCHANGED <<weather, daily>>
            ELSE /\ pc' = "forecast_done"
                 /\ daily' = <<f[2]>>
                 /\ weather' = WeatherInfo(<<"P">>, <<"F">>, fetch_weather_one_liner(f[2]))
  /\ UNCHANGED <<inputs, calendar_rows, geo, resp, result, used_fallback, outcome>>

NextWeather == ForecastCall

SpecWeather == InitWeather /\ [][NextWeather]_vars

(***************************************************************************)
(* The fallback generator at several temperatures                          *)
(***************************************************************************)
\* Maximum temperatures of a forecast, in tenths: two at or below 10
\* degrees and two at or above 25 degrees.
MaxTemperatures == {50, 90, 260, 300}

\* The daily dict of a forecast with the maximum t, no rain probability.
DailyAt(t) ==
  [temperature_2m_min |-> PyList(<<PyNum(t - 50)>>),
   temperature_2m_max |-> PyList(<<PyNum(t)>>),
   precipitation_probability_max |-> PyNone]

\* Trips of a style of the table, of an unknown style or of no style on
\* each day, with or without a plan in the evening.
TemperatureTrips(start, n) ==
  StyleDicts(DateKeysOf(start, n), {"minimeol", UnknownStyle})
    \X FormPlans(start, n, PlainTexts)

InitTemperatures ==
  /\ destination_input = <<"P">>
  /\ use_ai = FALSE
  /\ openai_key = <<>>
  /\ start_date \in StartDates
  /\ days \in 1..MaxDays
  /\ \E trip \in TemperatureTrips(start_date, days) :
       /\ day_styles = trip[1]
       /\ plans = trip[2]
  /\ today \in Todays
  /\ \E t \in MaxTemperatures :
       /\ daily = <<DailyAt(t)>>
       /\ weather = WeatherInfo(<<"P">>, <<"F">>, fetch_weather_one_liner(DailyAt(t)))
  /\ pc = "mock_call"
  /\ calendar_rows = <<>>
  /\ geo = <<>>
  /\ resp = NoResp
  /\ result = PyNone
  /\ used_fallback = FALSE
  /\ calls = <<>>
  /\ outcome = "none"

SpecTemperatures == InitTemperatures /\ [][NextMock]_vars

(***************************************************************************)
(* Properties                                                              *)
(***************************************************************************)
Range(s) == {s[i] : i \in DOMAIN s}

\* The days of a result and the outfits of a day.
Calendar(res) == Val(DictGet(res, "calendar_outfits", PyList(<<>>)))
Outfits(day) == Val(DictGet(day, "day_outfits", PyList(<<>>)))

\* The n-th day of the trip, and the style the form holds for it.
DateOfDay(n) == IsoFormat(start_date + n - 1)
StyleOfTripDay(n) == DayStyleOf(day_styles, DateOfDay(n))

\* The mock call has ended, by a return or by an exception.
MockEnded == pc \in {"mock_done", "mock_raised"}

\* C1: for every trip the mock generator returns exactly one calendar entry
\* per day of the trip, in date order from the start date, and every entry
\* holds at least two outfit recommendations, whatever text the itinerary
\* holds or lacks.
C1_OneEntryPerDay ==
  MockEnded =>
    /\ pc = "mock_done"
    /\ Len(Calendar(result)) = days
    /\ \A n \in 1..days :
         /\ DictGet(Calendar(result)[n], "date", PyNone) = PyStr(<<DateOfDay(n)>>)
         /\ Len(Outfits(Calendar(result)[n])) >= 2

\* A trip of several days without any plan has got its calendar.
C1_Witness ==
  /\ pc = "mock_done"
  /\ days >= 2
  /\ \A j \in 1..Len(calendar_rows) : calendar_rows[j].plan = NoPlan
  /\ Len(Calendar(result)) = days

\* The text entered in the box of the n-th day's slot: that of the first
\* entry of the plans for it, nothing when there is none.
EnteredText(n, slot) ==
  LET hits == SelectSeq(plans, LAMBDA p : p.date = DateOfDay(n) /\ p.slot = slot)
  IN  IF hits = <<>> \/ ~IsStr(hits[1].plan) THEN <<>> ELSE Val(hits[1].plan)

\* A text that holds something else than white space.
NonEmptyText(t) == \E i \in 1..Len(t) : t[i] \notin Whitespace

\* The slots an outfit covers.
Covers(outfit) == DictGet(outfit, "covers_slots", PyNone)
DaytimeVariant(outfit) == Covers(outfit) = StrList(<<"ojeon", "ohu">>)
EveningVariant(outfit) == Covers(outfit) = StrList(<<"jeonyeok">>)

\* C2: in the mock generator's result the first recommendation of a day is
\* a daytime variant, and the second one is the evening variant exactly when
\* the text entered for that day's evening slot is non-empty (read in the
\* claim's favour: holds a character that is no white space); otherwise the
\* second one is a second daytime variant, distinct from the first.
C2_EveningVariantIffEveningText ==
  pc = "mock_done" =>
    \A n \in 1..days :
      LET outfits == Outfits(Calendar(result)[n])
      IN  /\ Len(outfits) >= 2
          /\ DaytimeVariant(outfits[1])
          /\ IF NonEmptyText(EnteredText(n, "jeonyeok"))
               THEN EveningVariant(outfits[2])
               ELSE DaytimeVariant(outfits[2]) /\ outfits[2] # outfits[1]

\* The model-backed path of the request fails: the client or the call
\* raises, the answer has no text, the text cannot be parsed even after the
\* extraction, or the value parsed is no object.
ModelPathFails ==
  \/ resp \in {RespRaiseClient, RespRaiseCall}
  \/ OutputText(resp) = <<>>
  \/ LET data == ExtractJson(OutputText(resp))
     IN  data = <<>> \/ ~IsDict(data[1])

\* The generation has ended, by a return or by an exception.
GenEnded == pc \in {"gen_done", "gen_raised"}

\* What the mock generator returns for the request.
MockOfRequest ==
  mock_generate_calendar(weather, start_date, today, calendar_rows, day_styles)

\* C3: with a key supplied, any failure of the model-backed path makes the
\* generator return the mock generator's result with the fallback flag set,
\* and no exception leaves the generator.
C3_FailureFallsBack ==
  GenEnded =>
    /\ pc = "gen_done"
    /\ (openai_key # <<>> /\ ModelPathFails) => used_fallback
    /\ (openai_key # <<>> /\ used_fallback) => <<result>> = MockOfRequest

\* An answer that is a number, not an object, ended in the mock result.
C3_Witness ==
  /\ pc = "gen_done"
  /\ openai_key # <<>>
  /\ resp = RespText(Dumps(PyNum(1)))
  /\ used_fallback
  /\ <<result>> = MockOfRequest

\* The request has a call of that kind in its log.
Called(what) == \E c \in Range(calls) : c[1] = what

\* C4: a request with an empty key or with the toggle off never calls the
\* model and ends its generation with the mock result and the fallback flag
\* set; a fallback flag that is not set after the generation means the model
\* was called and its output parsed.
C4_NoKeyNoModel ==
  /\ (~use_ai \/ openai_key = <<>>) => ~Called("model")
  /\ pc \in {"render", "crashing"} =>
       /\ (~use_ai \/ openai_key = <<>>) =>
            /\ used_fallback
            /\ <<result>> = MockOfRequest
       /\ ~used_fallback =>
            /\ Called("model")
            /\ ExtractJson(OutputText(resp)) # <<>>
            /\ ~ModelPathFails

\* The toggle is on, the key is empty: the mock result is about to be shown.
C4_Witness ==
  /\ pc = "render"
  /\ use_ai
  /\ openai_key = <<>>
  /\ used_fallback
  /\ calls = << <<"geocode", "match">>, <<"forecast", "ok">>, <<"mock", "ok">> >>

\* The answer is the text of the object v with prose before or after it,
\* the prose before of the tokens in before, the prose after of those in after.
WrappedIn(v, before, after) ==
  /\ resp[1] = "text"
  /\ \E i, j \in 0..MaxProse :
       LET text == resp[2]
           body == Dumps(v)
       IN  /\ i + j > 0
           /\ Len(text) = i + Len(body) + j
           /\ SubSeq(text, i + 1, i + Len(body)) = body
           /\ \A k \in 1..i : text[k] \in before
           /\ \A k \in (i + Len(body) + 1)..Len(text) : text[k] \in after

\* The objects around which prose is explored.
WrappedObjects == {GoodAnswer, PyDict(<<>>)}

ProseNoOpen == ProseTokens \ {LBrace}
ProseNoClose == ProseTokens \ {RBrace}

GeocodeFailed ==
  \E c \in Range(calls) : c[1] = "geocode" /\ c[2] \in {"none", "error"}

\* C6: when the geocoding lookup finds no match, or raises, the request ends
\* with the outcome that the city was not found: no forecast lookup and no
\* generation, by the model or by the mock, follows in that request, and
\* nothing is rendered.
C6_NoMatchEndsRequest ==
  GeocodeFailed =>
    /\ pc = "stopped"
    /\ outcome = "city_not_found"
    /\ Len(calls) = 1
    /\ ~Called("forecast") /\ ~Called("model") /\ ~Called("mock")
    /\ weather = NoInfo
    /\ result = PyNone

\* A lookup that raised ended the request.
C6_Witness ==
  /\ calls = << <<"geocode", "error">> >>
  /\ pc = "stopped"
  /\ outcome = "city_not_found"

\* The forecast lookup of the request raised.
ForecastFailed == <<"forecast", "error">> \in Range(calls)

\* The weather line of the card of the result.
WeatherLine(res) ==
  DictGet(DictGet(res, "destination_card", PyDict(<<>>)), "weather_one_liner", PyNone)

\* C7: when the forecast lookup raises, the request goes on: the weather
\* summary is the text of no forecast, the generation runs with it, and the
\* result is rendered with it.
C7_ForecastFailureGoesOn ==
  ForecastFailed =>
    /\ weather.summary = NoWeather
    /\ pc \in {"generate", "render", "crashing", "stopped"}
    /\ pc # "generate" => Called("model") \/ Called("mock")
    /\ pc = "stopped" => outcome \in {"rendered", "retry", "crashed"}
    /\ (pc # "generate" /\ used_fallback) => WeatherLine(result) = PyStr(NoWeather)
    /\ (pc = "stopped" /\ used_fallback) => outcome = "rendered"

\* After a forecast that raised, the mock result was rendered.
C7_Witness ==
  /\ ForecastFailed
  /\ pc = "stopped"
  /\ outcome = "rendered"
  /\ Called("mock")
  /\ WeatherLine(result) = PyStr(NoWeather)

\* C8: the mock generator never raises: for every style, one that the
\* table lacks and a day without a style included, every itinerary, the
\* empty one included, and every weather summary, the text of no forecast
\* included, it returns, with at least one recommendation for every day.
C8_MockNeverRaises ==
  /\ pc # "mock_raised"
  /\ pc = "mock_done" =>
       \A n \in 1..days :
         \E m \in 1..Len(Calendar(result)) :
           /\ DictGet(Calendar(result)[m], "date", PyNone) = PyStr(<<DateOfDay(n)>>)
           /\ Len(Outfits(Calendar(result)[m])) >= 1

\* A trip with a day of an unknown style, a day without a style, no plan
\* and no forecast has got its calendar.
C8_Witness ==
  /\ pc = "mock_done"
  /\ weather.summary = NoWeather
  /\ \E n \in 1..days : StyleOfTripDay(n) = UnknownStyle
  /\ \E n \in 1..days : DateOfDay(n) \notin DOMAIN day_styles
  /\ \A j \in 1..Len(calendar_rows) : calendar_rows[j].plan = NoPlan
  /\ \A m \in 1..Len(Calendar(result)) : Len(Outfits(Calendar(result)[m])) >= 1

\* The bucket of the styles that the table lacks.
DefaultBucket == "kaejueol"

\* The styles of the form with style s on date key d.
WithStyle(d, s) ==
  [k \in DOMAIN day_styles \cup {d} |-> IF k = d THEN s ELSE day_styles[k]]

\* The titles of the templates of a style.
TitlesOf(style) ==
  {STYLE_VARIATIONS[style].day[i].title : i \in 1..Len(STYLE_VARIATIONS[style].day)}
  \cup {STYLE_VARIATIONS[style].night[i].title : i \in 1..Len(STYLE_VARIATIONS[style].night)}

\* C9: the mock generator takes the templates of the day's style, and for
\* a style that is no key of the table the templates of one default bucket:
\* the outfits for such a style are those for the default style with the
\* same itinerary.
C9_UnknownStyleUsesDefaultBucket ==
  pc = "mock_done" =>
    \A n \in 1..days :
      LET outfits == Outfits(Calendar(result)[n])
      IN  IF StyleOfTripDay(n) \in DOMAIN STYLE_VARIATIONS
            THEN \A m \in 1..Len(outfits) :
                   DictGet(outfits[m], "title", PyNone)
                     \in {PyStr(<<t>>) : t \in TitlesOf(StyleOfTripDay(n))}
            ELSE <<PyList(outfits)>>
                   = LET entry == DayEntry(DateOfDay(n), weather, calendar_rows,
                                           WithStyle(DateOfDay(n), DefaultBucket))
                     IN  IF entry = <<>> THEN <<>>
                         ELSE <<DictGet(entry[1], "day_outfits", PyNone)>>

\* A day of an unknown style with a plan in the evening has got outfits.
C9_Witness ==
  /\ pc = "mock_done"
  /\ \E n \in 1..days :
       /\ StyleOfTripDay(n) = UnknownStyle
       /\ has_evening_plan(RowsOf(calendar_rows, DateOfDay(n)))
       /\ Len(Outfits(Calendar(result)[n])) = 2

\* The longest packing checklist and the longest list of key items.
ChecklistMax == 14
KeyItemsMax == 5

\* The length of a list field of an outfit, above every limit when the
\* field is no list.
LenOf(outfit, key) ==
  IF IsList(DictGet(outfit, key, PyNone))
    THEN Len(Val(DictGet(outfit, key, PyNone)))
    ELSE ChecklistMax + KeyItemsMax

\* C10: for the styles of STYLE_OPTIONS and every itinerary the mock
\* generator returns recommendations, at least one, and each of them has
\* at most 14 entries in its packing checklist and at most 5 key items.
C10_ChecklistAndKeyItemsBounded ==
  (pc = "mock_done" /\ \A n \in 1..days : StyleOfTripDay(n) \in Range(STYLE_OPTIONS)) =>
    /\ Calendar(result) # <<>>
    /\ \A m \in 1..Len(Calendar(result)) :
         /\ Outfits(Calendar(result)[m]) # <<>>
         /\ \A k \in 1..Len(Outfits(Calendar(result)[m])) :
              /\ LenOf(Outfits(Calendar(result)[m])[k], "packing_checklist") <= ChecklistMax
              /\ LenOf(Outfits(Calendar(result)[m])[k], "key_items") <= KeyItemsMax

\* A trip in the style with the longest checklist has got its outfits.
C10_Witness ==
  /\ pc = "mock_done"
  /\ \A n \in 1..days : StyleOfTripDay(n) = "minimeol"
  /\ \E m \in 1..Len(Calendar(result)) :
       LenOf(Outfits(Calendar(result)[m])[1], "packing_checklist") = 6

\* The season of the request is winter.
Winter == SeasonOf(start_date) = "gyeoul"

\* The templates of the bucket of a style.
TemplatesOf(style) ==
  LET b == pick_variations(style)[1]
  IN  {b[1][i] : i \in 1..Len(b[1])} \cup {b[2][i] : i \in 1..Len(b[2])}

\* The checklist of the template an outfit of that style was built from.
BaseChecklist(style, outfit) ==
  LET v == CHOOSE t \in TemplatesOf(style) :
             PyStr(<<t.title>>) = DictGet(outfit, "title", PyNone)
  IN  v.checklist

\* The checklist of an outfit, a sequence of texts.
ChecklistOf(outfit) ==
  LET c == Val(DictGet(outfit, "packing_checklist", PyList(<<>>)))
  IN  [i \in 1..Len(c) |-> Val(c[i])[1]]

\* C11: when the season is winter, every recommendation of the mock
\* generator has a packing checklist that is the checklist of its template
\* with a cold-weather item appended: it holds the template's entries first
\* and at least one entry more.
C11_WinterAppendsColdItem ==
  (pc = "mock_done" /\ Winter) =>
    \A n \in 1..days :
      \A k \in 1..Len(Outfits(Calendar(result)[n])) :
        LET outfit == Outfits(Calendar(result)[n])[k]
            base == BaseChecklist(StyleOfTripDay(n), outfit)
        IN  /\ Len(ChecklistOf(outfit)) > Len(base)
            /\ SubSeq(ChecklistOf(outfit), 1, Len(base)) = base

\* The answer of the model is the text of the value v.
Answered(v) == resp = RespText(Dumps(v))

\* C12: no condition is fatal to a request: whatever the lookups and the
\* model answer, a press of the button ends with a rendered result, a
\* notice or a shown error, and never with an exception that leaves the
\* script.
C12_NoUnhandledException ==
  /\ pc # "crashing"
  /\ outcome # "crashed"

\* A day of the documented schema with the outfits given.
SchemaDay(key, outfits) ==
  AnswerDay(<<PyStr(<<key>>)>>, <<PyStr(<<"minimeol">>)>>, <<PyList(outfits)>>)

\* An object of the documented schema with the days given.
SchemaObject(days_) ==
  PyDict(<< <<"destination_card", AnswerCard>>, <<"calendar_outfits", PyList(days_)>> >>)

\* Objects of the documented schema: every day with two outfits, and a day
\* with one outfit.
TwoOutfitObjects ==
  {SchemaObject(<<SchemaDay("9", <<AnswerOutfit("a"), AnswerOutfit("b")>>)>>),
   SchemaObject(<<GoodDay("9"), GoodDay("10")>>)}
OneOutfitObject == SchemaObject(<<SchemaDay("9", <<AnswerOutfit("a")>>)>>)

\* C13 as stated: an answer that is a valid JSON object of the documented
\* schema comes back as an equal value, nothing added or removed, with the
\* fallback flag not set.
C13_RoundTrip ==
  (pc = "gen_done" /\ openai_key # <<>>) =>
    \A v \in TwoOutfitObjects \cup {OneOutfitObject} :
      Answered(v) => ~used_fallback /\ result = v

\* C13 amended: the answer comes back as an equal value when every day of
\* it holds at least two outfits.
C13_RoundTripOfTwoOutfits ==
  (pc = "gen_done" /\ openai_key # <<>>) =>
    \A v \in TwoOutfitObjects :
      Answered(v) => ~used_fallback /\ result = v

\* An answer of two days with two outfits each came back unchanged.
C13_Witness ==
  /\ pc = "gen_done"
  /\ openai_key # <<>>
  /\ Answered(SchemaObject(<<GoodDay("9"), GoodDay("10")>>))
  /\ ~used_fallback
  /\ result = SchemaObject(<<GoodDay("9"), GoodDay("10")>>)

\* A series of the answer is absent: the key is missing or null, the list
\* is empty, or its first element is null.
AbsentSeries(s) == s \in {PyNone, PyList(<<>>), PyList(<<PyNone>>)}

\* The series holds the number 0.
ZeroSeries(s) == s = PyList(<<PyNum(0)>>)

\* The text of the first number of a series.
NumberText(s) == Fmt0f(Val(Val(s)[1]))

\* The temperature part of a summary, and its rain part.
TemperaturePart(d) ==
  <<"T ">> \o NumberText(d.temperature_2m_min) \o <<"deg~">>
           \o NumberText(d.temperature_2m_max) \o <<"deg">>
RainPart(d) == <<"R ">> \o NumberText(d.precipitation_probability_max) \o <<"%">>

\* C14: absent values of a forecast are never taken for zero:
\* fetch_weather_one_liner returns the text of no forecast whenever the
\* minimum or the maximum temperature is absent, the temperatures alone
\* when only the rain probability is absent, and a value of 0 is written
\* as the number 0.
C14_AbsentIsNotZero ==
  pc = "forecast_done" =>
    LET d == daily[1]
        no_temps == AbsentSeries(d.temperature_2m_min) \/ AbsentSeries(d.temperature_2m_max)
        no_rain == AbsentSeries(d.precipitation_probability_max)
    IN  /\ no_temps => weather.summary = NoWeather
        /\ (~no_temps /\ no_rain) => weather.summary = TemperaturePart(d)
        /\ (~no_temps /\ ~no_rain) =>
             weather.summary = TemperaturePart(d) \o <<" . ">> \o RainPart(d)
        /\ ~no_temps => weather.summary # NoWeather
        /\ (~no_temps /\ ZeroSeries(d.temperature_2m_min)) =>
             SubSeq(weather.summary, 1, 3) = <<"T ", "0", "deg~">>
        /\ (~no_temps /\ ZeroSeries(d.precipitation_probability_max)) =>
             SubSeq(weather.summary, Len(weather.summary) - 2, Len(weather.summary))
               = <<"R ", "0", "%">>

\* A forecast of 0 degrees and 0 % was summed up with its numbers.
C14_Witness ==
  /\ pc = "forecast_done"
  /\ ZeroSeries(daily[1].temperature_2m_min)
  /\ ZeroSeries(daily[1].temperature_2m_max)
  /\ ZeroSeries(daily[1].precipitation_probability_max)
  /\ weather.summary = <<"T ", "0", "deg~", "0", "deg", " . ", "R ", "0", "%">>

\* The maximum temperature of the forecast of the request, in tenths.
MaxTemperature == Val(Val(daily[1].temperature_2m_max)[1])

\* What the mock generator returns for the request at the maximum t.
MockAtTemperature(t) ==
  mock_generate_calendar(
    WeatherInfo(weather.city, weather.country, fetch_weather_one_liner(DailyAt(t))),
    start_date, today, calendar_rows, day_styles)

\* The lists of items of an outfit: the garments of each category, the key
\* items and the packing checklist.
ItemLists(outfit) ==
  LET items == DictGet(outfit, "items", PyDict(<<>>))
  IN  [c \in {"top", "bottom", "outer", "shoes", "accessories"} |->
         Range(Val(DictGet(items, c, PyList(<<>>))))]
      @@ [c \in {"key_items", "packing_checklist"} |->
            Range(Val(DictGet(outfit, c, PyList(<<>>))))]

\* Every item of every recommendation of result a is in the same list of
\* the same recommendation of result b.
ItemsKept(a, b) ==
  /\ Len(Calendar(b)) >= Len(Calendar(a))
  /\ \A n \in 1..Len(Calendar(a)) :
       /\ Len(Outfits(Calendar(b)[n])) >= Len(Outfits(Calendar(a)[n]))
       /\ \A k \in 1..Len(Outfits(Calendar(a)[n])) :
            \A c \in DOMAIN ItemLists(Outfits(Calendar(a)[n])[k]) :
              ItemLists(Outfits(Calendar(a)[n])[k])[c]
                \subseteq ItemLists(Outfits(Calendar(b)[n])[k])[c]

\* C15: for the same styles and itinerary, a maximum temperature further
\* above 25 degrees takes away no item that a recommendation of the mock
\* generator holds at a lower temperature of at least 25 degrees, and a
\* maximum further below 10 degrees takes away no item that it holds at a
\* higher temperature of at most 10 degrees.
C15_TemperatureMonotonic ==
  pc = "mock_done" =>
    \A t \in MaxTemperatures :
      /\ (MaxTemperature >= 250 /\ t > MaxTemperature) =>
           ItemsKept(result, MockAtTemperature(t)[1])
      /\ (MaxTemperature <= 100 /\ t < MaxTemperature) =>
           ItemsKept(result, MockAtTemperature(t)[1])

\* A trip at 26 degrees has got its calendar, and 30 degrees are hotter.
C15_Witness ==
  /\ pc = "mock_done"
  /\ MaxTemperature = 260
  /\ 300 \in MaxTemperatures
  /\ days >= 2
  /\ ItemsKept(result, MockAtTemperature(300)[1])

\* The value that the answer of the model spells.
ParsedAnswer == ExtractJson(OutputText(resp))[1]

\* The days of a value that holds a calendar, none when it is no list.
DaysOf(v) ==
  LET cal == DictGet(v, "calendar_outfits", PyList(<<>>))
  IN  IF IsList(cal) THEN Val(cal) ELSE <<>>

\* The outfits that the model gave for a day: none for a list that is
\* missing, null or empty.
GivenOutfits(day) ==
  LET got == DictGet(day, "day_outfits", PyNone)
  IN  IF Truthy(got) THEN got ELSE PyList(<<>>)

\* The name of the style of a day of the answer: its day_style, or else
\* the style of the form for its date.
StyleNameOf(day) ==
  LET s == DictGet(day, "day_style", PyNone)
      d == DictGet(day, "date", PyNone)
  IN  IF Truthy(s) THEN (IF Len(Val(s)) = 1 THEN Val(s)[1] ELSE "")
      ELSE DayStyleOfValue(day_styles, d)

\* The outfits built from the templates of a style for the request.
TemplateOutfits(style) == {OutfitOf(v, weather.summary) : v \in TemplatesOf(style)}

DayWithoutOutfits ==
  PyDict(<< <<"calendar_outfits",
              PyList(<<AnswerDay(<<PyStr(<<"9">>)>>, <<PyStr(<<"minimeol">>)>>, Absent)>>)>> >>)

RankOf(what) ==
  CASE what = "geocode" -> 1
    [] what = "forecast" -> 2
    [] what = "model" -> 3
    [] what = "mock" -> 4

\* The generator was entered: the model or the fallback was called.
GenerationCalled == Called("model") \/ Called("mock")

\* The summary that the answer of the forecast call fixes.
SummaryOfForecast ==
  IF daily = <<>> THEN NoWeather ELSE fetch_weather_one_liner(daily[1])

\* C17: within one press of the button the calls are made one after the
\* other in the order geocoding, forecast, generation, each at most once;
\* the forecast is asked for only after geocoding gave a match, the
\* generator is entered only after the weather summary is fixed, the result
\* is rendered only after the generator returned, and a destination that
\* is empty or whitespace only stops the request before any call.
C17_SequentialCalls ==
  /\ \A i, j \in 1..Len(calls) :
       i < j => RankOf(calls[i][1]) < RankOf(calls[j][1])
  /\ Called("forecast") =>
       /\ calls[1] = <<"geocode", "match">>
       /\ calls[2][1] = "forecast"
  /\ GenerationCalled =>
       /\ calls[2][1] = "forecast"
       /\ weather # NoInfo
       /\ weather.summary = SummaryOfForecast
  /\ pc = "geocode" => calls = <<>>
  /\ pc = "weather" => Len(calls) = 1
  /\ pc = "generate" => Len(calls) = 2 /\ result = PyNone
  /\ (pc = "render" \/ outcome \in {"rendered", "retry"}) =>
       /\ GenerationCalled
       /\ result # PyNone
  /\ Strip(destination_input) = <<>> =>
       /\ calls = <<>>
       /\ pc \in {"form", "stopped"}
       /\ pc = "stopped" => outcome = "need_destination"

\* A request went through all three calls and was rendered.
C17_Witness ==
  /\ outcome = "rendered"
  /\ Len(calls) = 4
  /\ calls[3][1] = "model"
  /\ calls[4][1] = "mock"

\* A request with a destination of whitespace only was stopped.
C17_WitnessBlank ==
  /\ destination_input = <<" ">>
  /\ pc = "stopped"
  /\ outcome = "need_destination"

\* The keys of a dict, in order.
KeysOf(d) == [i \in 1..Len(Val(d)) |-> Val(d)[i][1]]

\* The card new holds what the card old held, and at most further keys.
CardGrown(old, new) ==
  \/ new = old
  \/ /\ IsDict(old)
     /\ IsDict(new)
     /\ Len(Val(new)) >= Len(Val(old))
     /\ SubSeq(Val(new), 1, Len(Val(old))) = Val(old)

\* A step from one result of a request to a result of the same request.
SameResultStep == result # PyNone /\ result' # PyNone

\* The outfits of a result that were built from a template hold the lists
\* of the template: the outfits of a fallback result, and the outfits that
\* were added to the answer of the model.
TemplateListsKept ==
  /\ (result # PyNone /\ used_fallback) => <<result>> = MockOfRequest
  /\ (result # PyNone /\ ~used_fallback) =>
       \A n \in 1..Len(DaysOf(result)) :
         LET given == GivenOutfits(DaysOf(ParsedAnswer)[n])
             got == DictGet(DaysOf(result)[n], "day_outfits", PyNone)
         IN  Len(Val(given)) < 2 =>
               \A k \in (Len(Val(given)) + 1)..Len(Val(got)) :
                 Val(got)[k] \in TemplateOutfits(StyleNameOf(DaysOf(result)[n]))

TrimmedText(t) ==
  LET solid == {i \in 1..Len(t) : t[i] \notin Whitespace}
  IN  IF solid = {} THEN <<>>
      ELSE SubSeq(t, CHOOSE a \in solid : \A i \in solid : a <= i,
                     CHOOSE b \in solid : \A i \in solid : b >= i)

\* The plan that the row of day n and slot is to show.
ShownPlan(n, slot) ==
  IF TrimmedText(EnteredText(n, slot)) = <<>>
    THEN <<"-">>
    ELSE TrimmedText(EnteredText(n, slot))

\* The three rows of day n.
RowsOfDay(n) == SubSeq(calendar_rows, 3 * n - 2, 3 * n)

\* C19: build_calendar_rows returns 3 * days rows, by day in the order of
\* the dates and within a day in the order morning, afternoon, evening;
\* each row holds the style of its day, or the default style when none is
\* recorded, and the trimmed text of the first plan of its date and slot,
\* or the placeholder dash when that plan is missing, empty or whitespace
\* only; the fallback generator treats the dash as no plan.
C19_CalendarRows ==
  pc = "mock_done" =>
    /\ Len(calendar_rows) = 3 * days
    /\ \A n \in 1..days :
         /\ \A s \in 1..3 :
              LET row == calendar_rows[3 * (n - 1) + s]
                  slot == <<"ojeon", "ohu", "jeonyeok">>[s]
              IN  /\ row.date = IsoFormat(start_date + n - 1)
                  /\ row.slot = slot
                  /\ row.style = IF row.date \in DOMAIN day_styles
                                   THEN day_styles[row.date]
                                   ELSE "reobeulri"
                  /\ row.plan = ShownPlan(n, slot)
         /\ (\A s \in 1..3 : RowsOfDay(n)[s].plan = <<"-">>) =>
              DictGet(Calendar(result)[n], "day_summary", PyNone) = PyStr(FreeDay)
         /\ RowsOfDay(n)[3].plan = <<"-">> =>
              \A k \in 1..Len(Outfits(Calendar(result)[n])) :
                ~EveningVariant(Outfits(Calendar(result)[n])[k])

\* Two plans of one date and slot were given, the first without a text
\* and the second with one, and the row shows the dash.
C19_Witness ==
  /\ pc = "mock_done"
  /\ Len(plans) = 2
  /\ plans[1].date = plans[2].date
  /\ plans[1].slot = plans[2].slot
  /\ plans[1].plan = PyNone
  /\ plans[2].plan = PyStr(<<" ", "a", " ">>)
  /\ \E k \in 1..Len(calendar_rows) :
       /\ calendar_rows[k].date = plans[1].date
       /\ calendar_rows[k].slot = plans[1].slot
       /\ calendar_rows[k].plan = <<"-">>

\* A text with whitespace around it is shown trimmed.
C19_WitnessTrimmed ==
  /\ pc = "mock_done"
  /\ \E k \in 1..Len(plans) : plans[k].plan = PyStr(<<" ", "a", " ">>)
  /\ \E k \in 1..Len(calendar_rows) : calendar_rows[k].plan = <<"a">>
====
